---- MODULE Spec2Model ----
(***************************************************************************)
(* The Tribbler front end (lab2/front.rs) over bin storage: every Server   *)
(* method is a sequence of key-value calls on the back ends, and a client  *)
(* task may be suspended between any two of them.  One action of the model *)
(* is one key-value call of one client task, together with the local       *)
(* computation that follows it up to the next call or the return.          *)
(***************************************************************************)
EXTENDS Naturals, Sequences, FiniteSets, TLC

(* ------------------------------ bounds -------------------------------- *)
\* client tasks that may run Server methods concurrently
NumProcs == 2
\* Server calls started in one behaviour
MaxCalls == 3
\* back ends the bins are sharded over
NumBacks == 2
\* tribbler::trib::MAX_FOLLOWING is 2000; scaled down for exhaustive search
MAX_FOLLOWING == 2
\* tribbler::trib::MIN_LIST_USER is 20; scaled down for exhaustive search
MIN_LIST_USER == 2
\* tribbler::trib::MAX_TRIB_FETCH is 100; scaled down for exhaustive search
MAX_TRIB_FETCH == 2
\* tribbler::trib::MAX_TRIB_LEN is 140; scaled down for exhaustive search
MAX_TRIB_LEN == 1
\* the greatest clock hint a post passes
MaxHint == 2
\* the greatest wall-clock time (seconds) a post reads
MaxTime == 1
\* the clocks of the behaviours with the keeper stay at or below MaxClock
MaxClock == 4
\* number of calls through the bin layer in the behaviours of the bin layer alone
MaxBinCalls == 2
\* the width of the counter seq of the reference FrontServer (64 in the code)
SeqBits == 2

(* ------------------------------ names --------------------------------- *)
\* the valid user names of the model, in alphabetical order
NameOrder == <<"a", "b", "c", "d">>
Users == {NameOrder[i] : i \in 1..Len(NameOrder)}
\* the empty name: not a valid user name, and the name of the general bin
General == ""
Names == Users \cup {General}
Bins == Users \cup {General}
Procs == 1..NumProcs
Backs == 0..(NumBacks - 1)

\* position of a name in the alphabetical order ("" sorts before all)
Rank(n) == IF n \in Users THEN CHOOSE i \in 1..Len(NameOrder) : NameOrder[i] = n ELSE 0

is_valid_username(n) == n \in Users

\* BinStorageClient::bin: hash(name) % backs.len(); the hash is a fixed function
Hash(n) == Rank(n)
BackOf(n) == Hash(n) % NumBacks

(* ------------------------------ storage ------------------------------- *)
VARIABLES
    kv,      \* kv[bin][key]: the key-string pairs, "None" when absent
    lists,   \* lists[bin][key]: the key-list pairs
    clock,   \* clock[back]: the logical clock of each back end
    pc,      \* pc[p]: the key-value call task p performs next
    loc,     \* loc[p]: the arguments and locals of task p's call
    ret,     \* ret[p]: what task p's last call returned
    calls,   \* number of calls started
    signedOk,\* history: signedOk[u] iff some sign_up(u) has returned Ok
    signOrder, \* history: the names of the sign_up calls that returned Ok, in that order
    lastOk,  \* history: lastOk[a][b]: the last of follow/unfollow(a,b) that returned Ok
    kvCalls, \* history: kvCalls[p]: the key-value calls task p's call has made so far:
             \* "none", "read" (only get and list_get), or "write" (a set, a
             \* list_append, a list_remove or a clock among them)
    gh,      \* history: gh[p]: what held when task p's call started (signedWho,
             \* signedWhom, absent, fl, ll, tl and mk: the followee list, the length
             \* of the log, the list tribs and the marker of the pair then), and which calls
             \* overlapped it (conc: the tasks in a call then; alone: none since)
    keeper,  \* the keeper task serve_keeper: its position pc, its locals clock and id,
             \* its result ret, its configuration (ready, shutdown: the channels
             \* of kc), the reachability up[b] of the back ends, and history
    store,   \* store[back]: what back end back holds under its physical keys, as
             \* the bin layer (BinStorageClient, BinUserClient) writes them: kv, the
             \* key-string pairs, and lists, the key-list pairs; kv[bin][key] and
             \* lists[bin][key] above are the front end's view of the same storage
    collected, \* history: collected[user]: the strings a tribs call has removed
             \* from the list tribs of user
    server   \* the reference FrontServer (ref_front.rs): its tables, its counter
             \* seq and the guards held on its two locks

vars == <<kv, lists, clock, pc, loc, ret, calls, signedOk, signOrder, lastOk, gh, kvCalls,
         keeper, store, collected, server>>

NoneV == "None"
ListKeys == {"users", "followees", "log", "tribs"}

\* BinUserClient::get
Get(bin, key) == kv[bin][key]
\* BinUserClient::set
Set(bin, key, val) == [kv EXCEPT ![bin][key] = val]
\* BinUserClient::list_get
ListGet(bin, key) == lists[bin][key]
\* a list_append that puts the value in front of the list
ListAppendInFront(bin, key, val) == [lists EXCEPT ![bin][key] = <<val>> \o @]
\* BinUserClient::list_append
ListAppend(bin, key, val) == [lists EXCEPT ![bin][key] = Append(@, val)]
\* list_remove of the back end: every occurrence of the value goes
RemoveAll(s, val) == SelectSeq(s, LAMBDA x : x # val)
\* a list_remove that reaches no back end
ListRemoveLost(bin, key, val) == lists
\* BinUserClient::list_remove
ListRemove(bin, key, val) == [lists EXCEPT ![bin][key] = RemoveAll(@, val)]
\* the clock logic returning the back end's value unchanged when it is not behind
ClockValueStale(back, at_least) == IF at_least > clock[back] THEN at_least ELSE clock[back]
\* the clock of the back end (bin_user_client.rs, CLOCK LOGIC)
ClockValue(back, at_least) == IF at_least > clock[back] THEN at_least ELSE clock[back] + 1
\* BinUserClient::clock
Clock(bin, at_least) == [clock EXCEPT ![BackOf(bin)] = ClockValue(BackOf(bin), at_least)]

(* ------------------------------ strings ------------------------------- *)
\* A string is a sequence of tokens; ":" is the one-character token the log
\* format is built from, every other token is colon-free text.
LogEntry(storage_clock, follow_string, whom) ==
    <<ToString(storage_clock)>> \o <<":", ":">> \o <<follow_string>> \o <<":", ":">> \o <<whom>>

\* str::split("::"): the parts of s between non-overlapping "::", left to right
RECURSIVE SplitFrom(_, _, _)
SplitFrom(s, i, cur) ==
    IF i > Len(s) THEN <<cur>>
    ELSE IF i < Len(s) /\ s[i] = ":" /\ s[i + 1] = ":"
         THEN <<cur>> \o SplitFrom(s, i + 2, <<>>)
         ELSE SplitFrom(s, i + 1, Append(cur, s[i]))
Split(s) == SplitFrom(s, 1, <<>>)

\* Iterator::next on the parts: <<part>> for Some(part), <<>> for None
NextPart(parts, i) == IF i <= Len(parts) THEN <<parts[i]>> ELSE <<>>

\* Vec<String>::sort on user names
RECURSIVE SortNames(_)
Insert(n, s) ==
    LET k == Cardinality({i \in 1..Len(s) : Rank(s[i]) <= Rank(n)})
    IN SubSeq(s, 1, k) \o <<n>> \o SubSeq(s, k + 1, Len(s))
SortNames(s) == IF s = <<>> THEN <<>> ELSE Insert(s[Len(s)], SortNames(SubSeq(s, 1, Len(s) - 1)))

Contains(s, x) == \E i \in 1..Len(s) : s[i] = x

\* the messages of the model: strings over the one letter "x", up to one letter
\* more than MAX_TRIB_LEN
Messages == {[i \in 1..n |-> "x"] : n \in 0..(MAX_TRIB_LEN + 1)}
Hints == 0..MaxHint
Times == 0..MaxTime

\* front.rs:95-104: serde_json::to_string(&trib): the fields in declaration order
TribToString(trib) == <<"user", trib.user, "message", trib.message,
                        "time", trib.time, "clock", trib.clock>>
\* front.rs:133-136: serde_json::from_str(&trib): each field looked up by its name
Field(s, name) == s[(CHOOSE i \in 1..Len(s) : i % 2 = 1 /\ s[i] = name) + 1]
TribFromString(s) == [clock |-> Field(s, "clock"), user |-> Field(s, "user"),
                      message |-> Field(s, "message"), time |-> Field(s, "time")]

\* str::cmp on messages: over a one-letter alphabet the shorter string is the lesser
MessageLess(a, b) == Len(a) < Len(b)
\* the comparison with the logical clocks the wrong way round
sort_trib_ClockReversed(a, b) ==
    IF a.clock # b.clock THEN a.clock > b.clock
    ELSE IF a.time # b.time THEN a.time < b.time
    ELSE IF a.user # b.user THEN Rank(a.user) < Rank(b.user)
    ELSE MessageLess(a.message, b.message)
\* front.rs:533-559: sort_trib(a, b) = Ordering::Less
sort_trib_Less(a, b) ==
    IF a.clock # b.clock THEN a.clock < b.clock
    ELSE IF a.time # b.time THEN a.time < b.time
    ELSE IF a.user # b.user THEN Rank(a.user) < Rank(b.user)
    ELSE MessageLess(a.message, b.message)

\* the vector left in the order the tribs were merged in
SortTribsSkipped(s) == s
\* front.rs:139,517: Vec::sort_by(sort_trib), a stable sort
RECURSIVE SortTribs(_)
InsertTrib(t, s) ==
    LET k == Cardinality({i \in 1..Len(s) : ~sort_trib_Less(t, s[i])})
    IN SubSeq(s, 1, k) \o <<t>> \o SubSeq(s, k + 1, Len(s))
SortTribs(s) == IF s = <<>> THEN <<>> ELSE InsertTrib(s[Len(s)], SortTribs(SubSeq(s, 1, Len(s) - 1)))

\* the head of the vector kept in place of its tail
NewestTribsHead(v) == IF Len(v) > MAX_TRIB_FETCH THEN SubSeq(v, 1, MAX_TRIB_FETCH) ELSE v
\* front.rs:155,523: v[old_num..].to_vec() with old_num = v.len() - MAX_TRIB_FETCH
NewestTribs(v) == IF Len(v) > MAX_TRIB_FETCH THEN SubSeq(v, Len(v) - MAX_TRIB_FETCH + 1, Len(v)) ELSE v
\* a garbage collection that removes the newest tribs in place of the oldest
OldestTribsTail(v) ==
    IF Len(v) > MAX_TRIB_FETCH THEN SubSeq(v, MAX_TRIB_FETCH + 1, Len(v)) ELSE <<>>
\* front.rs:145-147: the old_num tribs the garbage collection removes
OldestTribs(v) == IF Len(v) > MAX_TRIB_FETCH THEN SubSeq(v, 1, Len(v) - MAX_TRIB_FETCH) ELSE <<>>
\* front.rs:134-137: the tribs of a list of strings
TribsFromStrings(l) == [i \in 1..Len(l) |-> TribFromString(l[i])]
\* front.rs:145-147: the strings of a vector of tribs
TribsToStrings(v) == [i \in 1..Len(v) |-> TribToString(v[i])]

(* ------------------------------ tasks --------------------------------- *)
\* the arguments and locals of a call: who, whom, post and clock are the method's
\* parameters; clk and time the clock and the wall-clock time the call obtained;
\* cur the user an inner tribs or following call is about; stage, acc, fo and idx
\* the position of home (its vector user_home, its followees, the loop's index);
\* old and tv the tribs a tribs call still removes and the vector it returns
Call(op, who, whom, post, at_least) ==
    [clock |-> at_least, whom |-> whom, cur |-> who, time |-> 0, op |-> op, who |-> who,
     post |-> post, clk |-> 0, stage |-> "", acc |-> <<>>, fo |-> <<>>,
     idx |-> 0, old |-> <<>>, tv |-> <<>>]
NoCall == Call("none", "", "", <<>>, 0)
Ret(tag, name, val, flag) == [val |-> val, name |-> name, tag |-> tag, flag |-> flag]
NoRet == Ret("none", "", <<>>, FALSE)
Ok == Ret("Ok", "", <<>>, FALSE)
Err(tag, name) == Ret(tag, name, <<>>, FALSE)

Running(q) == pc[q] \notin {"idle", "done"}
WasSignedOk(n) == n \in Users /\ signedOk[n]

\* the call of task p makes a key-value call that only reads: get, list_get
Reads(p) == kvCalls' = [kvCalls EXCEPT ![p] = IF @ = "write" THEN "write" ELSE "read"]
\* the call of task p makes a key-value call that writes: set, list_append,
\* list_remove, clock
Writes(p) == kvCalls' = [kvCalls EXCEPT ![p] = "write"]

\* the call of task p returns r
Return(p, r) ==
    /\ pc' = [pc EXCEPT ![p] = "done"]
    /\ ret' = [ret EXCEPT ![p] = r]
\* the call of task p goes on to its key-value call l
Goto(p, l) ==
    /\ pc' = [pc EXCEPT ![p] = l]
    /\ UNCHANGED ret

\* Task p enters Server method op: the name checks of the method run before its
\* first key-value call (front.rs: the is_valid_username tests opening each method).
\* early is the error of the argument checks that follow them, NoRet when none fails.
EnterCall(p, call, checked, early, first) ==
    /\ pc[p] \in {"idle", "done"}
    /\ calls < MaxCalls
    /\ calls' = calls + 1
    /\ loc' = [loc EXCEPT ![p] = call]
    /\ gh' = [q \in Procs |->
                IF q = p
                THEN [signedWho |-> WasSignedOk(call.who),
                      signedWhom |-> WasSignedOk(call.whom),
                      absent |-> call.who \in Users /\ Get(call.who, call.who) = NoneV,
                      fl |-> IF call.who \in Users THEN ListGet(call.who, "followees") ELSE <<>>,
                      ll |-> IF call.who \in Users THEN Len(ListGet(call.who, "log")) ELSE 0,
                      conc |-> {r \in Procs \ {p} : Running(r)},
                      alone |-> \A r \in Procs \ {p} : ~Running(r),
                      tl |-> IF call.who \in Users THEN ListGet(call.who, "tribs") ELSE <<>>,
                      mk |-> IF call.who \in Users /\ call.whom \in DOMAIN kv[call.who]
                             THEN Get(call.who, call.whom) ELSE NoneV]
                ELSE [gh[q] EXCEPT !.conc = @ \ {p},
                                   !.alone = @ /\ ~Running(q)]]
    /\ IF Len(checked) > 0 /\ ~is_valid_username(checked[1])
       THEN Return(p, Err("InvalidUsername", checked[1]))
       ELSE IF Len(checked) > 1 /\ ~is_valid_username(checked[2])
            THEN Return(p, Err("InvalidUsername", checked[2]))
            ELSE IF early # NoRet
                 THEN Return(p, early)
                 ELSE pc' = [pc EXCEPT ![p] = first] /\ ret' = [ret EXCEPT ![p] = NoRet]
    /\ UNCHANGED <<kv, lists, clock, signedOk, signOrder, lastOk, keeper, store, collected, server>>
    /\ kvCalls' = [kvCalls EXCEPT ![p] = "none"]

Enter(p, op, who, whom, checked, first) ==
    EnterCall(p, Call(op, who, whom, <<>>, 0), checked, NoRet, first)

\* front.rs:508-526: home goes on after its loop over the followees, or enters
\* self.tribs(followee) for the followee at c.idx; c is the call's record
HomeNext(p, c) ==
    IF c.idx > Len(c.fo)
    THEN /\ Return(p, Ret("Ok", "", NewestTribs(SortTribs(c.acc)), FALSE))
         /\ loc' = [loc EXCEPT ![p] = c]
    ELSE IF ~is_valid_username(c.fo[c.idx])
         THEN /\ Return(p, Err("InvalidUsername", c.fo[c.idx]))
              /\ loc' = [loc EXCEPT ![p] = c]
         ELSE /\ Goto(p, "tr_get")
              /\ loc' = [loc EXCEPT ![p] = [c EXCEPT !.cur = c.fo[c.idx], !.stage = "followee"]]

\* The tribs or following call task p is in returns r: to the client, or to the
\* home call that made it (front.rs:504-511: self.tribs(user).await?,
\* self.following(user).await?, self.tribs(&followee).await?).
Deliver(p, r) ==
    LET c == [loc[p] EXCEPT !.old = <<>>, !.tv = <<>>]
    IN  IF c.op # "home" \/ r.tag # "Ok"
        THEN Return(p, r) /\ loc' = [loc EXCEPT ![p] = c]
        ELSE IF c.stage = "tribs"
             THEN /\ Goto(p, "fg_get_who")
                  /\ loc' = [loc EXCEPT ![p] = [c EXCEPT !.acc = r.val, !.stage = "following"]]
             ELSE IF c.stage = "following"
                  THEN HomeNext(p, [c EXCEPT !.fo = r.val, !.idx = 1])
                  ELSE HomeNext(p, [c EXCEPT !.acc = @ \o r.val, !.idx = @ + 1])

(* ------------------------------ sign_up ------------------------------- *)
\* the test taking the marker 'F' for "not signed up"
SignUpTakenIfT(following) == following = "T"
\* front.rs:30-58: match following { None => ..., Some(_) => UsernameTaken }
SignUpTaken(following) == following # NoneV

StartSignUp(p, U) ==
    \E user \in U : Enter(p, "sign_up", user, "", <<user>>, "su_get")

\* front.rs:28-30,56-58: user_bin.get(user)
SignUpGet(p) ==
    /\ pc[p] = "su_get"
    /\ IF SignUpTaken(Get(loc[p].who, loc[p].who))
       THEN Return(p, Err("UsernameTaken", loc[p].who))
       ELSE Goto(p, "su_set")
    /\ UNCHANGED <<kv, lists, clock, loc, calls, signedOk, signOrder, lastOk, gh, keeper, store, collected, server>>
    /\ Reads(p)

\* front.rs:33-38: user_bin.set(user, "F")
SignUpSet(p) ==
    /\ pc[p] = "su_set"
    /\ kv' = Set(loc[p].who, loc[p].who, "F")
    /\ Goto(p, "su_list")
    /\ UNCHANGED <<lists, clock, loc, calls, signedOk, signOrder, lastOk, gh, keeper, store, collected, server>>
    /\ Writes(p)

\* the test without the limit: every new user is appended
NeedMoreUsersAlways(user_list) == TRUE
\* front.rs:44-45: "need more users for list_users()"
NeedMoreUsers(user_list) == Len(user_list) < MIN_LIST_USER

\* front.rs:41-45,53: general_bin.list_get("users") and the length test
SignUpListGet(p) ==
    /\ pc[p] = "su_list"
    /\ IF NeedMoreUsers(ListGet(General, "users"))
       THEN Goto(p, "su_append") /\ UNCHANGED <<signedOk, signOrder>>
       ELSE /\ Return(p, Ok)
            /\ signedOk' = [signedOk EXCEPT ![loc[p].who] = TRUE]
            /\ signOrder' = Append(signOrder, loc[p].who)
    /\ UNCHANGED <<kv, lists, clock, loc, calls, lastOk, gh, keeper, store, collected, server>>
    /\ Reads(p)

\* front.rs:46-53: general_bin.list_append("users", user)
SignUpAppend(p) ==
    /\ pc[p] = "su_append"
    /\ lists' = ListAppend(General, "users", loc[p].who)
    /\ Return(p, Ok)
    /\ signedOk' = [signedOk EXCEPT ![loc[p].who] = TRUE]
    /\ signOrder' = Append(signOrder, loc[p].who)
    /\ UNCHANGED <<kv, clock, loc, calls, lastOk, gh, keeper, store, collected, server>>
    /\ Writes(p)

(* ------------------------------ list_users ---------------------------- *)
StartListUsers(p) == Enter(p, "list_users", "", "", <<>>, "lu_list")

\* front.rs:63-67: general_bin.list_get("users"), sorted
ListUsersGet(p) ==
    /\ pc[p] = "lu_list"
    /\ Return(p, Ret("Ok", "", SortNames(ListGet(General, "users")), FALSE))
    /\ UNCHANGED <<kv, lists, clock, loc, calls, signedOk, signOrder, lastOk, gh, keeper, store, collected, server>>
    /\ Reads(p)

(* ------------------------------ follow -------------------------------- *)
\* front.rs:214-271: the replay of the log that decides a follow.  i is the
\* position of the loop, follow_state the loop's variable; the result is
\* "proceed" when the loop breaks or ends, else the error returned inside it.
\* the replay without "follow_state = 1" for the entries of other calls
RECURSIVE FollowReplayForgets(_, _, _, _, _)
FollowReplayForgets(log, i, follow_state, storage_clock, whom) ==
    IF i > Len(log) THEN "proceed"
    ELSE LET string_iterator == Split(log[i])
             parsed_clock == NextPart(string_iterator, 1)
             parsed_follow_string == NextPart(string_iterator, 2)
             parsed_followee == NextPart(string_iterator, 3)
         IN  IF parsed_followee = <<>> THEN "Unknown"
             ELSE IF parsed_followee[1] # <<whom>>
                  THEN FollowReplayForgets(log, i + 1, follow_state, storage_clock, whom)
             ELSE IF parsed_follow_string = << <<"follow">> >>
                  THEN IF parsed_clock = <<>> THEN "Unknown"
                       ELSE IF <<ToString(storage_clock)>> = parsed_clock[1]
                            THEN IF follow_state = 1 THEN "AlreadyFollowing" ELSE "proceed"
                            ELSE FollowReplayForgets(log, i + 1, follow_state, storage_clock, whom)
             ELSE IF parsed_follow_string = << <<"unfollow">> >>
                  THEN FollowReplayForgets(log, i + 1, 0, storage_clock, whom)
             ELSE "Unknown"

RECURSIVE FollowReplay(_, _, _, _, _)
FollowReplay(log, i, follow_state, storage_clock, whom) ==
    IF i > Len(log) THEN "proceed"
    ELSE LET string_iterator == Split(log[i])
             parsed_clock == NextPart(string_iterator, 1)
             parsed_follow_string == NextPart(string_iterator, 2)
             parsed_followee == NextPart(string_iterator, 3)
         IN  IF parsed_followee = <<>> THEN "Unknown"
             ELSE IF parsed_followee[1] # <<whom>>
                  THEN FollowReplay(log, i + 1, follow_state, storage_clock, whom)
             ELSE IF parsed_follow_string = << <<"follow">> >>
                  THEN IF parsed_clock = <<>> THEN "Unknown"
                       ELSE IF <<ToString(storage_clock)>> = parsed_clock[1]
                            THEN IF follow_state = 1 THEN "AlreadyFollowing" ELSE "proceed"
                            ELSE FollowReplay(log, i + 1, 1, storage_clock, whom)
             ELSE IF parsed_follow_string = << <<"unfollow">> >>
                  THEN FollowReplay(log, i + 1, 0, storage_clock, whom)
             ELSE "Unknown"

\* the limit test with > for >=
TooManyOffByOne(followees) == Len(followees) > MAX_FOLLOWING
\* front.rs:196-200: the limit test on the stored followee list
TooMany(followees) == Len(followees) >= MAX_FOLLOWING

StartFollow(p, W, M) ==
    \E who \in W, whom \in M : Enter(p, "follow", who, whom, <<who, whom>>, "fo_get_who")

\* front.rs:180-186: who_bin.get(who)
FollowGetWho(p) ==
    /\ pc[p] = "fo_get_who"
    /\ IF Get(loc[p].who, loc[p].who) = NoneV
       THEN Return(p, Err("UserDoesNotExist", loc[p].who))
       ELSE Goto(p, "fo_get_whom")
    /\ UNCHANGED <<kv, lists, clock, loc, calls, signedOk, signOrder, lastOk, gh, keeper, store, collected, server>>
    /\ Reads(p)

\* the follow that obtains the clock of its log entry before it looks whom up
FollowGetWhomAfterClock(p) ==
    /\ pc[p] = "fo_get_whom"
    /\ clock' = Clock(loc[p].who, 0)
    /\ IF Get(loc[p].whom, loc[p].whom) = NoneV
       THEN Return(p, Err("UserDoesNotExist", loc[p].whom))
       ELSE Goto(p, "fo_list")
    /\ UNCHANGED <<kv, lists, loc, calls, signedOk, signOrder, lastOk, gh, keeper, store, collected, server>>
    /\ Writes(p)
\* front.rs:188-194: whom_bin.get(whom)
FollowGetWhom(p) ==
    /\ pc[p] = "fo_get_whom"
    /\ IF Get(loc[p].whom, loc[p].whom) = NoneV
       THEN Return(p, Err("UserDoesNotExist", loc[p].whom))
       ELSE Goto(p, "fo_list")
    /\ UNCHANGED <<kv, lists, clock, loc, calls, signedOk, signOrder, lastOk, gh, keeper, store, collected, server>>
    /\ Reads(p)

\* front.rs:196-200: who_bin.list_get("followees")
FollowListGet(p) ==
    /\ pc[p] = "fo_list"
    /\ IF TooMany(ListGet(loc[p].who, "followees"))
       THEN Return(p, Err("FollowingTooMany", ""))
       ELSE Goto(p, "fo_clock")
    /\ UNCHANGED <<kv, lists, clock, loc, calls, signedOk, signOrder, lastOk, gh, keeper, store, collected, server>>
    /\ Reads(p)

\* front.rs:202: who_bin.clock(0)
FollowClock(p) ==
    /\ pc[p] = "fo_clock"
    /\ clock' = Clock(loc[p].who, 0)
    /\ loc' = [loc EXCEPT ![p].clk = ClockValue(BackOf(loc[p].who), 0)]
    /\ Goto(p, "fo_append_log")
    /\ UNCHANGED <<kv, lists, calls, signedOk, signOrder, lastOk, gh, keeper, store, collected, server>>
    /\ Writes(p)

\* front.rs:203-211: who_bin.list_append("log", "<clock>::follow::<whom>")
FollowAppendLog(p) ==
    /\ pc[p] = "fo_append_log"
    /\ lists' = ListAppend(loc[p].who, "log", LogEntry(loc[p].clk, "follow", loc[p].whom))
    /\ Goto(p, "fo_read_log")
    /\ UNCHANGED <<kv, clock, loc, calls, signedOk, signOrder, lastOk, gh, keeper, store, collected, server>>
    /\ Writes(p)

\* front.rs:213-271: who_bin.list_get("log") and the replay
FollowReadLog(p) ==
    /\ pc[p] = "fo_read_log"
    /\ LET d == FollowReplay(ListGet(loc[p].who, "log"), 1, 0, loc[p].clk, loc[p].whom)
       IN  IF d = "proceed" THEN Goto(p, "fo_append")
           ELSE Return(p, Err(d, IF d = "AlreadyFollowing" THEN loc[p].whom ELSE ""))
    /\ UNCHANGED <<kv, lists, clock, loc, calls, signedOk, signOrder, lastOk, gh, keeper, store, collected, server>>
    /\ Reads(p)

\* front.rs:273-279: who_bin.list_append("followees", whom)
FollowAppend(p) ==
    /\ pc[p] = "fo_append"
    /\ lists' = ListAppend(loc[p].who, "followees", loc[p].whom)
    /\ Goto(p, "fo_set")
    /\ UNCHANGED <<kv, clock, loc, calls, signedOk, signOrder, lastOk, gh, keeper, store, collected, server>>
    /\ Writes(p)

\* front.rs:281-292: who_bin.set(whom, "T")
FollowSet(p) ==
    /\ pc[p] = "fo_set"
    /\ kv' = Set(loc[p].who, loc[p].whom, "T")
    /\ Return(p, Ok)
    /\ lastOk' = [lastOk EXCEPT ![loc[p].who][loc[p].whom] = "follow"]
    /\ UNCHANGED <<lists, clock, loc, calls, signedOk, signOrder, gh, keeper, store, collected, server>>
    /\ Writes(p)

(* ------------------------------ unfollow ------------------------------ *)
\* front.rs:335-392: the replay of the log that decides an unfollow
RECURSIVE UnfollowReplay(_, _, _, _, _)
UnfollowReplay(log, i, follow_state, storage_clock, whom) ==
    IF i > Len(log) THEN "proceed"
    ELSE LET string_iterator == Split(log[i])
             parsed_clock == NextPart(string_iterator, 1)
             parsed_follow_string == NextPart(string_iterator, 2)
             parsed_followee == NextPart(string_iterator, 3)
         IN  IF parsed_followee = <<>> THEN "Unknown"
             ELSE IF parsed_followee[1] # <<whom>>
                  THEN UnfollowReplay(log, i + 1, follow_state, storage_clock, whom)
             ELSE IF parsed_follow_string = << <<"follow">> >>
                  THEN UnfollowReplay(log, i + 1, 1, storage_clock, whom)
             ELSE IF parsed_follow_string = << <<"unfollow">> >>
                  THEN IF parsed_clock = <<>> THEN "Unknown"
                       ELSE IF <<ToString(storage_clock)>> = parsed_clock[1]
                            THEN IF follow_state = 0 THEN "NotFollowing" ELSE "proceed"
                            ELSE UnfollowReplay(log, i + 1, 0, storage_clock, whom)
             ELSE "Unknown"

StartUnfollow(p, W, M) ==
    \E who \in W, whom \in M : Enter(p, "unfollow", who, whom, <<who, whom>>, "un_get_who")

\* front.rs:307-313: who_bin.get(who)
UnfollowGetWho(p) ==
    /\ pc[p] = "un_get_who"
    /\ IF Get(loc[p].who, loc[p].who) = NoneV
       THEN Return(p, Err("UserDoesNotExist", loc[p].who))
       ELSE Goto(p, "un_get_whom")
    /\ UNCHANGED <<kv, lists, clock, loc, calls, signedOk, signOrder, lastOk, gh, keeper, store, collected, server>>
    /\ Reads(p)

\* front.rs:315-321: whom_bin.get(whom)
UnfollowGetWhom(p) ==
    /\ pc[p] = "un_get_whom"
    /\ IF Get(loc[p].whom, loc[p].whom) = NoneV
       THEN Return(p, Err("UserDoesNotExist", loc[p].whom))
       ELSE Goto(p, "un_clock")
    /\ UNCHANGED <<kv, lists, clock, loc, calls, signedOk, signOrder, lastOk, gh, keeper, store, collected, server>>
    /\ Reads(p)

\* front.rs:323: who_bin.clock(0)
UnfollowClock(p) ==
    /\ pc[p] = "un_clock"
    /\ clock' = Clock(loc[p].who, 0)
    /\ loc' = [loc EXCEPT ![p].clk = ClockValue(BackOf(loc[p].who), 0)]
    /\ Goto(p, "un_append_log")
    /\ UNCHANGED <<kv, lists, calls, signedOk, signOrder, lastOk, gh, keeper, store, collected, server>>
    /\ Writes(p)

\* front.rs:324-332: who_bin.list_append("log", "<clock>::unfollow::<whom>")
UnfollowAppendLog(p) ==
    /\ pc[p] = "un_append_log"
    /\ lists' = ListAppend(loc[p].who, "log", LogEntry(loc[p].clk, "unfollow", loc[p].whom))
    /\ Goto(p, "un_read_log")
    /\ UNCHANGED <<kv, clock, loc, calls, signedOk, signOrder, lastOk, gh, keeper, store, collected, server>>
    /\ Writes(p)

\* an unfollow that stores the marker before it decides
UnfollowReadLogMarking(p) ==
    /\ pc[p] = "un_read_log"
    /\ LET d == UnfollowReplay(ListGet(loc[p].who, "log"), 1, 0, loc[p].clk, loc[p].whom)
       IN  IF d = "proceed" THEN Goto(p, "un_remove")
           ELSE Return(p, Err(d, IF d = "NotFollowing" THEN loc[p].whom ELSE ""))
    /\ kv' = Set(loc[p].who, loc[p].whom, "F")
    /\ UNCHANGED <<lists, clock, loc, calls, signedOk, signOrder, lastOk, gh, keeper, store, collected, server>>
    /\ Reads(p)

\* front.rs:334-392: who_bin.list_get("log") and the replay
UnfollowReadLog(p) ==
    /\ pc[p] = "un_read_log"
    /\ LET d == UnfollowReplay(ListGet(loc[p].who, "log"), 1, 0, loc[p].clk, loc[p].whom)
       IN  IF d = "proceed" THEN Goto(p, "un_remove")
           ELSE Return(p, Err(d, IF d = "NotFollowing" THEN loc[p].whom ELSE ""))
    /\ UNCHANGED <<kv, lists, clock, loc, calls, signedOk, signOrder, lastOk, gh, keeper, store, collected, server>>
    /\ Reads(p)

\* front.rs:394-400: who_bin.list_remove("followees", whom)
UnfollowRemove(p) ==
    /\ pc[p] = "un_remove"
    /\ lists' = ListRemove(loc[p].who, "followees", loc[p].whom)
    /\ Goto(p, "un_set")
    /\ UNCHANGED <<kv, clock, loc, calls, signedOk, signOrder, lastOk, gh, keeper, store, collected, server>>
    /\ Writes(p)

\* an unfollow that deletes the marker of the pair
MarkerRemoved == NoneV
\* front.rs:405: the value unfollow stores under whom
UnfollowMarker == "F"

\* front.rs:402-413: who_bin.set(whom, "F")
UnfollowSet(p) ==
    /\ pc[p] = "un_set"
    /\ kv' = Set(loc[p].who, loc[p].whom, UnfollowMarker)
    /\ Return(p, Ok)
    /\ lastOk' = [lastOk EXCEPT ![loc[p].who][loc[p].whom] = "unfollow"]
    /\ UNCHANGED <<lists, clock, loc, calls, signedOk, signOrder, gh, keeper, store, collected, server>>
    /\ Writes(p)

(* ------------------------------ is_following -------------------------- *)
\* front.rs:444-462: the answer read off the marker who_bin.get(whom)
MarkerAnswer(m) ==
    IF m = NoneV THEN Ret("Ok", "", <<>>, FALSE)
    ELSE IF m = "T" THEN Ret("Ok", "", <<>>, TRUE)
    ELSE IF m = "F" THEN Ret("Ok", "", <<>>, FALSE)
    ELSE Err("Unknown", "")

StartIsFollowing(p, W, M) ==
    \E who \in W, whom \in M :
        Enter(p, "is_following", who, whom, <<who, whom>>, "if_get_who")

\* front.rs:428-434: who_bin.get(who)
IsFollowingGetWho(p) ==
    /\ pc[p] = "if_get_who"
    /\ IF Get(loc[p].who, loc[p].who) = NoneV
       THEN Return(p, Err("UserDoesNotExist", loc[p].who))
       ELSE Goto(p, "if_get_whom")
    /\ UNCHANGED <<kv, lists, clock, loc, calls, signedOk, signOrder, lastOk, gh, keeper, store, collected, server>>
    /\ Reads(p)

\* front.rs:436-442: whom_bin.get(whom)
IsFollowingGetWhom(p) ==
    /\ pc[p] = "if_get_whom"
    /\ IF Get(loc[p].whom, loc[p].whom) = NoneV
       THEN Return(p, Err("UserDoesNotExist", loc[p].whom))
       ELSE Goto(p, "if_get_marker")
    /\ UNCHANGED <<kv, lists, clock, loc, calls, signedOk, signOrder, lastOk, gh, keeper, store, collected, server>>
    /\ Reads(p)

\* front.rs:444-462: who_bin.get(whom)
IsFollowingGetMarker(p) ==
    /\ pc[p] = "if_get_marker"
    /\ Return(p, MarkerAnswer(Get(loc[p].who, loc[p].whom)))
    /\ UNCHANGED <<kv, lists, clock, loc, calls, signedOk, signOrder, lastOk, gh, keeper, store, collected, server>>
    /\ Reads(p)

(* ------------------------------ following ----------------------------- *)
StartFollowing(p, W) ==
    \E who \in W : Enter(p, "following", who, "", <<who>>, "fg_get_who")

\* front.rs:476-482: who_bin.get(who)
FollowingGetWho(p) ==
    /\ pc[p] = "fg_get_who"
    /\ IF Get(loc[p].cur, loc[p].cur) = NoneV
       THEN Deliver(p, Err("UserDoesNotExist", loc[p].cur))
       ELSE Goto(p, "fg_list") /\ UNCHANGED loc
    /\ UNCHANGED <<kv, lists, clock, calls, signedOk, signOrder, lastOk, gh, keeper, store, collected, server>>
    /\ Reads(p)

\* front.rs:484-486: who_bin.list_get("followees")
FollowingListGet(p) ==
    /\ pc[p] = "fg_list"
    /\ Deliver(p, Ret("Ok", "", ListGet(loc[p].cur, "followees"), FALSE))
    /\ UNCHANGED <<kv, lists, clock, calls, signedOk, signOrder, lastOk, gh, keeper, store, collected, server>>
    /\ Reads(p)

(* ------------------------------ post ---------------------------------- *)
\* the length test refusing a post of MAX_TRIB_LEN as well
TooLongOffByOne(post) == Len(post) >= MAX_TRIB_LEN
\* front.rs:79-80: "The post is too long."
TooLong(post) == Len(post) > MAX_TRIB_LEN

\* front.rs:74-82: the name test, then the length test
StartPost(p, W, P, C) ==
    \E who \in W, post \in P, at_least \in C :
        EnterCall(p, Call("post", who, "", post, at_least), <<who>>,
                  IF TooLong(post) THEN Err("TribTooLong", "") ELSE NoRet,
                  "po_get")

\* front.rs:84-90: who_bin.get(who)
PostGet(p) ==
    /\ pc[p] = "po_get"
    /\ IF Get(loc[p].who, loc[p].who) = NoneV
       THEN Return(p, Err("UserDoesNotExist", loc[p].who))
       ELSE Goto(p, "po_clock")
    /\ UNCHANGED <<kv, lists, clock, loc, calls, signedOk, signOrder, lastOk, gh, keeper, store, collected, server>>
    /\ Reads(p)

\* front.rs:93-102: who_bin.clock(clock), then SystemTime::now()
PostClock(p) ==
    /\ pc[p] = "po_clock"
    /\ clock' = Clock(loc[p].who, loc[p].clock)
    /\ \E now \in Times :
         loc' = [loc EXCEPT ![p].clk = ClockValue(BackOf(loc[p].who), loc[p].clock),
                            ![p].time = now]
    /\ Goto(p, "po_append")
    /\ UNCHANGED <<kv, lists, calls, signedOk, signOrder, lastOk, gh, keeper, store, collected, server>>
    /\ Writes(p)

\* front.rs:96-113: who_bin.list_append("tribs", trib_string)
PostAppend(p) ==
    /\ pc[p] = "po_append"
    /\ lists' = ListAppend(loc[p].who, "tribs",
                           TribToString([clock |-> loc[p].clk, user |-> loc[p].who,
                                         message |-> loc[p].post, time |-> loc[p].time]))
    /\ Return(p, Ok)
    /\ UNCHANGED <<kv, clock, loc, calls, signedOk, signOrder, lastOk, gh, keeper, store, collected, server>>
    /\ Writes(p)

(* ------------------------------ tribs --------------------------------- *)
StartTribs(p, U) ==
    \E user \in U : Enter(p, "tribs", user, "", <<user>>, "tr_get")

\* front.rs:126-132: user_bin.get(user)
TribsGet(p) ==
    /\ pc[p] = "tr_get"
    /\ IF Get(loc[p].cur, loc[p].cur) = NoneV
       THEN Deliver(p, Err("UserDoesNotExist", loc[p].cur))
       ELSE Goto(p, "tr_list") /\ UNCHANGED loc
    /\ UNCHANGED <<kv, lists, clock, calls, signedOk, signOrder, lastOk, gh, keeper, store, collected, server>>
    /\ Reads(p)

\* front.rs:133-147,155-158: user_bin.list_get("tribs"), parsed and sorted
TribsListGet(p) ==
    /\ pc[p] = "tr_list"
    /\ LET trib_vec == SortTribs(TribsFromStrings(ListGet(loc[p].cur, "tribs")))
       IN  IF Len(trib_vec) > MAX_TRIB_FETCH
           THEN /\ Goto(p, "tr_remove")
                /\ loc' = [loc EXCEPT ![p].old = TribsToStrings(OldestTribs(trib_vec)),
                                       ![p].tv = NewestTribs(trib_vec)]
           ELSE Deliver(p, Ret("Ok", "", trib_vec, FALSE))
    /\ UNCHANGED <<kv, lists, clock, calls, signedOk, signOrder, lastOk, gh, keeper, store, collected, server>>
    /\ Reads(p)

\* front.rs:145-158: user_bin.list_remove("tribs", old_trib_string), one old trib
\* per call; after the last one the call returns the newest tribs
TribsRemove(p) ==
    /\ pc[p] = "tr_remove"
    /\ lists' = ListRemove(loc[p].cur, "tribs", Head(loc[p].old))
    /\ collected' = [collected EXCEPT ![loc[p].cur] =
                        IF Contains(ListGet(loc[p].cur, "tribs"), Head(loc[p].old))
                        THEN @ \cup {Head(loc[p].old)} ELSE @]
    /\ IF Len(loc[p].old) > 1
       THEN /\ loc' = [loc EXCEPT ![p].old = Tail(@)]
            /\ UNCHANGED <<pc, ret>>
       ELSE Deliver(p, Ret("Ok", "", loc[p].tv, FALSE))
    /\ UNCHANGED <<kv, clock, calls, signedOk, signOrder, lastOk, gh, keeper, store, server>>
    /\ Writes(p)

(* ------------------------------ home ---------------------------------- *)
StartHome(p, U) ==
    \E user \in U : Enter(p, "home", user, "", <<user>>, "hm_get")

\* front.rs:498-508: user_bin.get(user), then into self.tribs(user)
HomeGet(p) ==
    /\ pc[p] = "hm_get"
    /\ IF Get(loc[p].who, loc[p].who) = NoneV
       THEN Return(p, Err("UserDoesNotExist", loc[p].who)) /\ UNCHANGED loc
       ELSE Goto(p, "tr_get") /\ loc' = [loc EXCEPT ![p].stage = "tribs"]
    /\ UNCHANGED <<kv, lists, clock, calls, signedOk, signOrder, lastOk, gh, keeper, store, collected, server>>
    /\ Reads(p)

(* ------------------------------ bins ---------------------------------- *)
\* The strings of the bin layer are sequences of characters, so that ':' in
\* a name or a key, escaping, concatenation, prefixes and suffixes are what they
\* are in the code.
BinNames == {<<>>, <<"a">>, <<"a", ":">>, <<"c">>}
BinKeys == {<<"b">>, <<":", "b">>, <<"k", "b">>}
BinValues == {"x", "y"}
Prefixes == {<<>>, <<"k">>}
Suffixes == {<<>>, <<"b">>}
ColonFree(s) == \A i \in 1..Len(s) : s[i] # ":"

\* the byte of a character (ASCII)
Byte(c) == CASE c = ":" -> 58
             [] c = "a" -> 97
             [] c = "b" -> 98
             [] c = "c" -> 99
             [] c = "d" -> 100
             [] c = "k" -> 107

\* bin_client.rs:24-26: DefaultHasher::new(), write(name.as_bytes()), finish():
\* a fixed function of the bytes of the name (here their sum)
RECURSIVE hash_value(_)
hash_value(name) == IF name = <<>> THEN 0 ELSE Byte(Head(name)) + hash_value(Tail(name))

\* the client p was built with: new_bin_client(backs) keeps the list of addresses
backs(p) == [i \in 1..NumBacks |-> i - 1]

\* a hasher keyed per process
backend_id_Keyed(p, name) == (hash_value(name) + p) % Len(backs(p))
\* bin_client.rs:29-31: hash_value % self.backs.len()
backend_id(p, name) == hash_value(name) % Len(backs(p))
\* bin_client.rs:31-32: the back end at backs[backend_id]
addr(p, name) == backs(p)[backend_id(p, name) + 1]

\* tribbler::colon::escape: every ':' becomes "::"
RECURSIVE escape(_)
escape(s) ==
    IF s = <<>> THEN <<>>
    ELSE (IF Head(s) = ":" THEN <<":", ":">> ELSE <<Head(s)>>) \o escape(Tail(s))

\* bin_client.rs:35-38: BinUserClient { name: escape(name), .. }
user_storage_name(name) == escape(name)

\* the physical key without the separator between name and key
prefix_key_Joined(self_name, key) == self_name \o escape(key)
\* bin_user_client.rs:17,22,64,69,80: self.name + "::" + escape(key)
prefix_key(self_name, key) == self_name \o <<":", ":">> \o escape(key)
\* bin_user_client.rs:34,91: self.name + "::" + p.prefix
prefix_prefix(self_name, prefix) == self_name \o <<":", ":">> \o prefix
\* the returned key whole, header included
StripNothing(self_name, key) == key
\* bin_user_client.rs:48-49,104-105: key[self.name.len() + 2..]
Strip(self_name, key) == SubSeq(key, Len(self_name) + 3, Len(key))

StartsWith(s, prefix) == Len(prefix) <= Len(s) /\ SubSeq(s, 1, Len(prefix)) = prefix
EndsWith(s, suffix) ==
    Len(suffix) <= Len(s) /\ SubSeq(s, Len(s) - Len(suffix) + 1, Len(s)) = suffix

\* the back end (Storage): get, set, keys, list_get, list_append, list_remove, list_keys
StoreEmpty == [b \in Backs |-> [kv |-> <<>>, lists |-> <<>>]]
Put(f, key, value) == [x \in DOMAIN f \cup {key} |-> IF x = key THEN value ELSE f[x]]
Drop(f, key) == [x \in DOMAIN f \ {key} |-> f[x]]
StorageGet(b, key) == IF key \in DOMAIN store[b].kv THEN store[b].kv[key] ELSE NoneV
StorageSet(b, key, value) == [store EXCEPT ![b].kv = Put(@, key, value)]
StorageKeys(b, prefix, suffix) ==
    {key \in DOMAIN store[b].kv : StartsWith(key, prefix) /\ EndsWith(key, suffix)}
StorageListGet(b, key) == IF key \in DOMAIN store[b].lists THEN store[b].lists[key] ELSE <<>>
StorageListAppend(b, key, value) ==
    [store EXCEPT ![b].lists = Put(@, key, Append(StorageListGet(b, key), value))]
StorageListRemove(b, key, value) ==
    [store EXCEPT ![b].lists =
        IF RemoveAll(StorageListGet(b, key), value) = <<>>
        THEN Drop(@, key)
        ELSE Put(@, key, RemoveAll(StorageListGet(b, key), value))]
StorageListKeys(b, prefix, suffix) ==
    {key \in DOMAIN store[b].lists : StartsWith(key, prefix) /\ EndsWith(key, suffix)}

\* what a call through the bin layer was and where it went: the method, the bin
\* name and the key or pattern given, the back end bin(name) chose, and the
\* number of the call
BinCall(op, name, key, value, suffix, back) ==
    [key |-> key, back |-> back, name |-> name, op |-> op, suffix |-> suffix, value |-> value,
     id |-> calls + 1]

\* task p's call to the bin layer: bin(name), then one method of the
\* BinUserClient it returned. In these behaviours kv[name][key] and
\* lists[name][key] keep what was last written through bin(name) under key.
BinStep(p, op, name, key, value, suffix, result) ==
    /\ calls < MaxBinCalls
    /\ calls' = calls + 1
    /\ loc' = [loc EXCEPT ![p] = BinCall(op, name, key, value, suffix, addr(p, name))]
    /\ ret' = [ret EXCEPT ![p] = result]
    /\ UNCHANGED <<clock, pc, signedOk, signOrder, lastOk, gh, kvCalls, keeper, collected, server>>

\* BinUserClient::get of bin(name)
BinGet(p, name, key) ==
    /\ BinStep(p, "get", name, key, "", <<>>,
               StorageGet(addr(p, name), prefix_key(user_storage_name(name), key)))
    /\ UNCHANGED <<kv, lists, store, collected, server>>

\* BinUserClient::set of bin(name)
BinSet(p, name, key, value) ==
    /\ BinStep(p, "set", name, key, value, <<>>, TRUE)
    /\ store' = StorageSet(addr(p, name), prefix_key(user_storage_name(name), key), value)
    /\ kv' = Set(name, key, value)
    /\ UNCHANGED lists

\* BinUserClient::keys of bin(name): the pattern's prefix behind the header, the
\* suffix as given, and the header cut off every key the back end returns
BinKeysOf(p, name, prefix, suffix) ==
    /\ BinStep(p, "keys", name, prefix, "", suffix,
               {Strip(user_storage_name(name), key) :
                  key \in StorageKeys(addr(p, name),
                                      prefix_prefix(user_storage_name(name), prefix), suffix)})
    /\ UNCHANGED <<kv, lists, store, collected, server>>

\* BinUserClient::list_get of bin(name)
BinListGet(p, name, key) ==
    /\ BinStep(p, "list_get", name, key, "", <<>>,
               StorageListGet(addr(p, name), prefix_key(user_storage_name(name), key)))
    /\ UNCHANGED <<kv, lists, store, collected, server>>

\* BinUserClient::list_append of bin(name)
BinListAppend(p, name, key, value) ==
    /\ BinStep(p, "list_append", name, key, value, <<>>, TRUE)
    /\ store' = StorageListAppend(addr(p, name),
                                  prefix_key(user_storage_name(name), key), value)
    /\ lists' = ListAppend(name, key, value)
    /\ UNCHANGED kv

\* BinUserClient::list_remove of bin(name): the number of elements removed
BinListRemove(p, name, key, value) ==
    /\ BinStep(p, "list_remove", name, key, value, <<>>,
               Len(StorageListGet(addr(p, name), prefix_key(user_storage_name(name), key)))
               - Len(RemoveAll(StorageListGet(addr(p, name),
                                              prefix_key(user_storage_name(name), key)), value)))
    /\ store' = StorageListRemove(addr(p, name),
                                  prefix_key(user_storage_name(name), key), value)
    /\ lists' = ListRemove(name, key, value)
    /\ UNCHANGED kv

\* BinUserClient::list_keys of bin(name)
BinListKeys(p, name, prefix, suffix) ==
    /\ BinStep(p, "list_keys", name, prefix, "", suffix,
               {Strip(user_storage_name(name), key) :
                  key \in StorageListKeys(addr(p, name),
                                          prefix_prefix(user_storage_name(name), prefix), suffix)})
    /\ UNCHANGED <<kv, lists, store, collected, server>>

(* ------------------------------ keeper -------------------------------- *)
\* every variable but keeper
frontVars == <<kv, lists, clock, pc, loc, ret, calls, signedOk, signOrder, lastOk, gh, kvCalls,
              store, collected, server>>

\* serve_keeper not started; given is the greatest clock a post was assigned so
\* far, pending the greatest one assigned before the iteration the keeper is in
\* began, settled the greatest one assigned before a completed iteration began
KeeperOff ==
    [clock |-> 0, pc |-> "off", ret |-> "none", id |-> 0, ready |-> FALSE,
     shutdown |-> "None", up |-> [b \in Backs |-> TRUE], sent |-> 0, called |-> FALSE,
     start_max |-> 0, given |-> 0, pending |-> 0, settled |-> 0]
\* lab.rs:29-33: serve_keeper(kc) entered; ready tells whether kc.ready is Some,
\* shutdown is "None" when kc.shutdown is None and "open" when it is a channel
\* nothing was sent on yet
KeeperEntered(ready, shutdown) ==
    [KeeperOff EXCEPT !.pc = "start", !.ready = ready, !.shutdown = shutdown]

\* the greatest clock of the back ends
MaxBackClock == CHOOSE m \in {clock[b] : b \in Backs} : \A b \in Backs : clock[b] <= m

\* the keeper sending nothing on kc.ready
ReadySendsNothing(ready) == 0
\* lab.rs:36-39: the number of messages sent on kc.ready
ReadySends(ready) == IF ready THEN 1 ELSE 0

\* lab.rs:48,56,70,78: cmp::max(clock, client.clock(clock).await?)
MaxClockOf(c, returned) == IF c > returned THEN c ELSE returned

\* lab.rs:36-46: the ready signal, then into the loop
KeeperStart ==
    /\ keeper.pc = "start"
    /\ keeper' = [keeper EXCEPT !.sent = @ + ReadySends(keeper.ready), !.pc = "pass1",
                                !.pending = keeper.given]
    /\ UNCHANGED frontVars

\* lab.rs:46-50,54-58,68-72,76-80: new_client(&backs[id]).await? and
\* client.clock(clock).await? for the back end at id, in the pass the keeper is in;
\* an unreachable back end makes "?" return the error from serve_keeper
KeeperClock(pass, next) ==
    /\ keeper.pc = pass
    /\ IF ~keeper.up[keeper.id]
       THEN /\ keeper' = [keeper EXCEPT !.pc = "returned", !.ret = "Err", !.called = TRUE]
            /\ UNCHANGED clock
       ELSE LET returned == ClockValue(keeper.id, keeper.clock)
                last == keeper.id + 1 = NumBacks
            IN  /\ returned <= MaxClock
                /\ clock' = [clock EXCEPT ![keeper.id] = returned]
                /\ keeper' = [keeper EXCEPT
                      !.clock = MaxClockOf(keeper.clock, returned),
                      !.id = IF last THEN 0 ELSE @ + 1,
                      !.pc = IF last THEN next ELSE pass,
                      !.called = TRUE,
                      !.start_max = IF pass = "pass1" /\ keeper.id = 0
                                    THEN MaxBackClock ELSE @,
                      !.settled = IF last /\ next # "pass2" THEN keeper.pending ELSE @]
    /\ UNCHANGED <<kv, lists, pc, loc, ret, calls, signedOk, signOrder, lastOk, gh, kvCalls, store, collected, server>>

\* the keeper leaving out the second pass
KeeperSinglePass == KeeperClock("pass1", IF keeper.shutdown = "None" THEN "sleep" ELSE "recv")
\* lab.rs:46-53,68-75: the first pass
KeeperPass1 == KeeperClock("pass1", "pass2")
\* a second pass that calls no back end
KeeperPass2Idle ==
    /\ keeper.pc = "pass2"
    /\ keeper' = [keeper EXCEPT !.pc = IF keeper.shutdown = "None" THEN "sleep" ELSE "recv",
                                !.id = 0, !.settled = keeper.pending]
    /\ UNCHANGED frontVars
\* lab.rs:54-58,76-80: the second pass; with a shutdown channel the keeper goes on
\* to receiver.recv(), without one to the sleep
KeeperPass2 == KeeperClock("pass2", IF keeper.shutdown = "None" THEN "sleep" ELSE "recv")

\* lab.rs:83-90: receiver.recv().await: waits until a message was sent (break,
\* then return Ok) or every sender is gone (None: the loop goes on)
KeeperRecv ==
    /\ keeper.pc = "recv"
    /\ keeper.shutdown \in {"sent", "closed"}
    /\ keeper' = IF keeper.shutdown = "sent"
                 THEN [keeper EXCEPT !.pc = "returned", !.ret = "Ok"]
                 ELSE [keeper EXCEPT !.pc = "sleep"]
    /\ UNCHANGED frontVars

\* lab.rs:60-62,92-94: thread::sleep(one_sec); id = 0
KeeperSleep ==
    /\ keeper.pc = "sleep"
    /\ keeper' = [keeper EXCEPT !.pc = "pass1", !.id = 0, !.pending = keeper.given]
    /\ UNCHANGED frontVars

\* tests/lab2_test.rs:86,108: the host sends the shutdown signal
SendShutdown ==
    /\ keeper.pc # "off" /\ keeper.shutdown = "open"
    /\ keeper' = [keeper EXCEPT !.shutdown = "sent"]
    /\ UNCHANGED frontVars
\* the host drops its sender without sending
DropShutdown ==
    /\ keeper.pc # "off" /\ keeper.shutdown = "open"
    /\ keeper' = [keeper EXCEPT !.shutdown = "closed"]
    /\ UNCHANGED frontVars
\* tests/lab2_test.rs:99-101: a back end is shut down
BackDown(b) ==
    /\ keeper.pc # "off" /\ keeper.up[b]
    /\ keeper' = [keeper EXCEPT !.up[b] = FALSE]
    /\ UNCHANGED frontVars
\* front.rs:93,202: a post or a follow obtains a clock from back end b
FrontClock(b, at_least) ==
    /\ keeper.up[b]
    /\ ClockValue(b, at_least) <= MaxClock
    /\ clock' = [clock EXCEPT ![b] = ClockValue(b, at_least)]
    /\ keeper' = [keeper EXCEPT !.given = MaxClockOf(@, ClockValue(b, at_least))]
    /\ UNCHANGED <<kv, lists, pc, loc, ret, calls, signedOk, signOrder, lastOk, gh, kvCalls,
                   store, collected, server>>

KeeperSteps ==
    \/ KeeperStart
    \/ KeeperPass1
    \/ KeeperPass2
    \/ KeeperRecv
    \/ KeeperSleep

(* ------------------------ reference FrontServer ----------------------- *)
\* ref_front.rs:143-149: FrontServer::new(): the keys of the user table and of the
\* home table, who follows whom, the counter seq; held[p] are the guards task p
\* holds on the two RwLocks; history:
\* posted, the <<clock hint, clock assigned>> of the posts that returned Ok
NewFrontServer ==
    [following |-> [u \in Users |-> {}], users_keys |-> {}, homes_keys |-> {}, seq |-> 0,
     held |-> [p \in Procs |-> {}], posted |-> <<>>]

\* the greatest u64, at the width SeqBits
U64_MAX == 2^SeqBits - 1

\* the names the calls on the reference FrontServer are about
RefUsers == {"a", "b"}
RefOps == {"sign_up", "list_users", "post", "tribs", "follow", "unfollow", "is_following",
           "following", "home"}

\* a follow that takes the home table before the user table
LocksOfHomesFirst(op) ==
    IF op = "follow" THEN <<"homes_write", "users_write">>
    ELSE IF op \in {"sign_up", "post", "unfollow"} THEN <<"users_write", "homes_write">>
    ELSE IF op = "home" THEN <<"homes_read">>
    ELSE <<"users_read">>
\* ref_front.rs:182,188 (sign_up), 213,241 (post), 279,310 (follow), 322,344
\* (unfollow): self.users.write() then self.homes.write(); 196, 259, 356, 369:
\* self.users.read() in list_users, tribs, is_following, following; 377:
\* self.homes.read() in home
LocksOf(op) ==
    IF op \in {"sign_up", "post", "follow", "unfollow"} THEN <<"users_write", "homes_write">>
    ELSE IF op = "home" THEN <<"homes_read">>
    ELSE <<"users_read">>

LockOf(l) == IF l \in {"users_write", "users_read"} THEN "users" ELSE "homes"
IsWrite(l) == l \in {"users_write", "homes_write"}
\* RwLock: write() waits until nobody holds a guard, read() until no writer does
CanLock(l) ==
    \A q \in Procs : \A h \in server.held[q] :
        LockOf(h) = LockOf(l) => ~IsWrite(h) /\ ~IsWrite(l)

\* ref_front.rs:220-231: the counter after fetch_update with the hint
SeqRaised(s, hint) == IF s < hint THEN hint ELSE s

\* what the method of call c answers once it holds the user table, NoRet when it
\* goes on (ref_front.rs:183-185, 214-219, 260-272, 280-296, 323-333, 357-365,
\* 370-373); the vectors tribs, list_users and following return are left out
UsersAnswer(c) ==
    IF c.op = "sign_up"
    THEN IF c.who \in server.users_keys THEN Err("UsernameTaken", c.who) ELSE NoRet
    ELSE IF c.op = "post"
    THEN IF c.who \notin server.users_keys THEN Err("UserDoesNotExist", c.who)
         ELSE IF server.seq = U64_MAX THEN Err("MaxedSeq", "") ELSE NoRet
    ELSE IF c.op = "follow"
    THEN IF c.whom \notin server.users_keys \/ c.who \notin server.users_keys
         THEN Err("UserDoesNotExist", c.who)
         ELSE IF c.whom \in server.following[c.who] THEN Err("AlreadyFollowing", c.whom)
         ELSE IF Cardinality(server.following[c.who]) >= MAX_FOLLOWING
              THEN Err("FollowingTooMany", "")
              ELSE NoRet
    ELSE IF c.op = "unfollow"
    THEN IF c.whom \notin server.users_keys \/ c.who \notin server.users_keys
         THEN Err("UserDoesNotExist", c.whom)
         ELSE IF c.whom \notin server.following[c.who] THEN Err("NotFollowing", c.whom)
         ELSE NoRet
    ELSE IF c.op = "is_following"
    THEN IF c.whom \notin server.users_keys THEN Err("UserDoesNotExist", c.whom)
         ELSE IF c.who \notin server.users_keys THEN Err("UserDoesNotExist", c.who)
         ELSE Ret("Ok", "", <<>>, c.whom \in server.following[c.who])
    ELSE IF c.op = "list_users" \/ c.who \in server.users_keys THEN Ok
    ELSE Err("UserDoesNotExist", c.who)

\* what the method of call c writes once it holds the user table and goes on:
\* users.insert (ref_front.rs:187), seq.fetch_update and seq.fetch_add(1), which
\* wraps around (ref_front.rs:220-235), u.follow (ref_front.rs:297), u.unfollow
\* (ref_front.rs:334)
UsersWrite(c, s) ==
    IF c.op = "sign_up" THEN [s EXCEPT !.users_keys = @ \cup {c.who}]
    ELSE IF c.op = "post"
    THEN [s EXCEPT !.seq = (SeqRaised(@, c.clock) + 1) % 2^SeqBits,
                   !.posted = Append(@, <<c.clock, SeqRaised(s.seq, c.clock)>>)]
    ELSE IF c.op = "follow" THEN [s EXCEPT !.following[c.who] = @ \cup {c.whom}]
    ELSE IF c.op = "unfollow" THEN [s EXCEPT !.following[c.who] = @ \ {c.whom}]
    ELSE s

\* what the method answers once it holds the home table: ref_front.rs:377-389 for
\* home; sign_up, post, follow and unfollow return Ok after writing it
HomesAnswer(c) ==
    IF c.op = "home" /\ c.who \notin server.homes_keys
    THEN Err("UserDoesNotExist", c.who) ELSE NoRet
\* ref_front.rs:189: homes.insert(user, vec![]); the tribs in the homes are left out
HomesWrite(c, s) ==
    IF c.op = "sign_up" THEN [s EXCEPT !.homes_keys = @ \cup {c.who}] ELSE s

\* Task p enters a method of the reference FrontServer: the tests it makes before
\* it takes a lock (ref_front.rs:179-181, 209-212, 276-278, 319-321, 353-355)
RefStart(p) ==
    \E op \in RefOps, who \in RefUsers, whom \in RefUsers, post \in Messages,
       at_least \in 0..U64_MAX :
        /\ op # "post" => post = <<>> /\ at_least = 0
        /\ op \notin {"follow", "unfollow", "is_following"} => whom = who
        /\ EnterCall(p, Call(op, who, whom, post, at_least),
                     IF op = "sign_up" THEN <<who>> ELSE <<>>,
                     IF op = "post" /\ TooLong(post) THEN Err("TribTooLong", "")
                     ELSE IF op \in {"follow", "unfollow", "is_following"} /\ who = whom
                          THEN Err("WhoWhom", who)
                          ELSE NoRet,
                     "rf_lock")

\* the lock the method of task p takes next: the one after those it holds
NextLock(p) == LocksOf(loc[p].op)[Cardinality(server.held[p]) + 1]

\* Task p takes the next lock of its method and runs the method up to the next
\* lock or to its return
RefAcquire(p) ==
    /\ pc[p] = "rf_lock"
    /\ LET l == NextLock(p)
           c == loc[p]
           r == IF LockOf(l) = "users" THEN UsersAnswer(c) ELSE HomesAnswer(c)
           s == [server EXCEPT !.held[p] = @ \cup {l}]
           t == IF LockOf(l) = "users" THEN UsersWrite(c, s) ELSE HomesWrite(c, s)
       IN  /\ CanLock(l)
           /\ IF r # NoRet
              THEN /\ server' = s
                   /\ pc' = [pc EXCEPT ![p] = "rf_return"]
                   /\ ret' = [ret EXCEPT ![p] = r]
              ELSE /\ server' = t
                   /\ IF Cardinality(t.held[p]) = Len(LocksOf(c.op))
                      THEN /\ pc' = [pc EXCEPT ![p] = "rf_return"]
                           /\ ret' = [ret EXCEPT ![p] = Ok]
                      ELSE UNCHANGED <<pc, ret>>
    /\ UNCHANGED <<kv, lists, clock, loc, calls, signedOk, signOrder, lastOk, gh, kvCalls,
                   keeper, store, collected>>

\* the method of task p returns: its guards are dropped
RefReturn(p) ==
    /\ pc[p] = "rf_return"
    /\ pc' = [pc EXCEPT ![p] = "done"]
    /\ server' = [server EXCEPT !.held[p] = {}]
    /\ UNCHANGED <<kv, lists, clock, loc, ret, calls, signedOk, signOrder, lastOk, gh, kvCalls,
                   keeper, store, collected>>

(* ------------------------------ behaviours ---------------------------- *)
\* no tribs call has removed anything
NoneCollected == [u \in Users |-> {}]

NoGh == [signedWho |-> FALSE, signedWhom |-> FALSE, absent |-> FALSE, fl |-> <<>>, ll |-> 0,
         conc |-> {}, alone |-> TRUE, tl |-> <<>>, mk |-> NoneV]

\* the service as deployed: empty back ends, no task in a call
Init ==
    /\ kv = [b \in Bins |-> [k \in Names |-> NoneV]]
    /\ lists = [b \in Bins |-> [k \in ListKeys |-> <<>>]]
    /\ clock = [b \in Backs |-> 0]
    /\ pc = [p \in Procs |-> "idle"]
    /\ loc = [p \in Procs |-> NoCall]
    /\ ret = [p \in Procs |-> NoRet]
    /\ calls = 0
    /\ signedOk = [u \in Users |-> FALSE]
    /\ signOrder = <<>>
    /\ lastOk = [a \in Users |-> [b \in Users |-> "none"]]
    /\ gh = [p \in Procs |-> NoGh]
    /\ kvCalls = [p \in Procs |-> "none"]
    /\ keeper = KeeperOff
    /\ store = StoreEmpty
    /\ collected = NoneCollected
    /\ server = NewFrontServer

\* the service after sign_up of every user of the model, one after the other in
\* alphabetical order, has returned Ok (front.rs:33-52)
InitSigned ==
    /\ kv = [b \in Bins |-> [k \in Names |-> IF b \in Users /\ k = b THEN "F" ELSE NoneV]]
    /\ lists = [b \in Bins |-> [k \in ListKeys |->
                  IF b = General /\ k = "users"
                  THEN SubSeq(NameOrder, 1, IF MIN_LIST_USER < Len(NameOrder)
                                            THEN MIN_LIST_USER ELSE Len(NameOrder))
                  ELSE <<>>]]
    /\ clock = [b \in Backs |-> 0]
    /\ pc = [p \in Procs |-> "idle"]
    /\ loc = [p \in Procs |-> NoCall]
    /\ ret = [p \in Procs |-> NoRet]
    /\ calls = 0
    /\ signedOk = [u \in Users |-> TRUE]
    /\ signOrder = NameOrder
    /\ lastOk = [a \in Users |-> [b \in Users |-> "none"]]
    /\ gh = [p \in Procs |-> NoGh]
    /\ kvCalls = [p \in Procs |-> "none"]
    /\ keeper = KeeperOff
    /\ store = StoreEmpty
    /\ collected = NoneCollected
    /\ server = NewFrontServer

\* the service after that and after follow("a", "d") has returned Ok
\* (front.rs:202-211, 273-287)
InitFollowed ==
    /\ kv = [b \in Bins |-> [k \in Names |->
               IF b \in Users /\ k = b THEN "F"
               ELSE IF b = "a" /\ k = "d" THEN "T" ELSE NoneV]]
    /\ lists = [b \in Bins |-> [k \in ListKeys |->
                  IF b = General /\ k = "users"
                  THEN SubSeq(NameOrder, 1, IF MIN_LIST_USER < Len(NameOrder)
                                            THEN MIN_LIST_USER ELSE Len(NameOrder))
                  ELSE IF b = "a" /\ k = "log" THEN <<LogEntry(1, "follow", "d")>>
                  ELSE IF b = "a" /\ k = "followees" THEN <<"d">>
                  ELSE <<>>]]
    /\ clock = [b \in Backs |-> IF b = BackOf("a") THEN 1 ELSE 0]
    /\ pc = [p \in Procs |-> "idle"]
    /\ loc = [p \in Procs |-> NoCall]
    /\ ret = [p \in Procs |-> NoRet]
    /\ calls = 0
    /\ signedOk = [u \in Users |-> TRUE]
    /\ signOrder = NameOrder
    /\ lastOk = [a \in Users |-> [b \in Users |-> IF a = "a" /\ b = "d" THEN "follow" ELSE "none"]]
    /\ gh = [p \in Procs |-> NoGh]
    /\ kvCalls = [p \in Procs |-> "none"]
    /\ keeper = KeeperOff
    /\ store = StoreEmpty
    /\ collected = NoneCollected
    /\ server = NewFrontServer

\* the service after that and after MAX_TRIB_FETCH calls post("a", "x", 0) have
\* returned Ok, each at wall-clock time 0 (front.rs:93-113)
InitPosted ==
    /\ kv = [b \in Bins |-> [k \in Names |->
               IF b \in Users /\ k = b THEN "F"
               ELSE IF b = "a" /\ k = "d" THEN "T" ELSE NoneV]]
    /\ lists = [b \in Bins |-> [k \in ListKeys |->
                  IF b = General /\ k = "users"
                  THEN SubSeq(NameOrder, 1, IF MIN_LIST_USER < Len(NameOrder)
                                            THEN MIN_LIST_USER ELSE Len(NameOrder))
                  ELSE IF b = "a" /\ k = "log" THEN <<LogEntry(1, "follow", "d")>>
                  ELSE IF b = "a" /\ k = "followees" THEN <<"d">>
                  ELSE IF b = "a" /\ k = "tribs"
                  THEN [i \in 1..MAX_TRIB_FETCH |->
                          TribToString([clock |-> i + 1, user |-> "a",
                                        message |-> <<"x">>, time |-> 0])]
                  ELSE <<>>]]
    /\ clock = [b \in Backs |-> IF b = BackOf("a") THEN MAX_TRIB_FETCH + 1 ELSE 0]
    /\ pc = [p \in Procs |-> "idle"]
    /\ loc = [p \in Procs |-> NoCall]
    /\ ret = [p \in Procs |-> NoRet]
    /\ calls = 0
    /\ signedOk = [u \in Users |-> TRUE]
    /\ signOrder = NameOrder
    /\ lastOk = [a \in Users |-> [b \in Users |-> IF a = "a" /\ b = "d" THEN "follow" ELSE "none"]]
    /\ gh = [p \in Procs |-> NoGh]
    /\ kvCalls = [p \in Procs |-> "none"]
    /\ keeper = KeeperOff
    /\ store = StoreEmpty
    /\ collected = NoneCollected
    /\ server = NewFrontServer

\* the users on whose behalf the task of the sequential behaviours calls
Callers == {"a", "b"}
\* the racing calls of the concurrent follow behaviours: one follower, two targets
RaceWho == {"a"}
RaceWhom == {"b", "c"}
\* the names the tasks of the sign-up behaviours pass
SignUpNames == {"a", "b", "c", General}
\* the names the tasks pass when every method runs: one user and the followee it
\* may have, and the empty name among the names signing up
AllWho == {"a"}
AllWhom == {"a", "d", General}
AllNames == {"a", General}

SignUpSteps(p) ==
    \/ SignUpGet(p)
    \/ SignUpSet(p)
    \/ SignUpListGet(p)
    \/ SignUpAppend(p)
    \/ ListUsersGet(p)

FollowSteps(p) ==
    \/ FollowGetWho(p)
    \/ FollowGetWhom(p)
    \/ FollowListGet(p)
    \/ FollowClock(p)
    \/ FollowAppendLog(p)
    \/ FollowReadLog(p)
    \/ FollowAppend(p)
    \/ FollowSet(p)
    \/ UnfollowGetWho(p)
    \/ UnfollowGetWhom(p)
    \/ UnfollowClock(p)
    \/ UnfollowAppendLog(p)
    \/ UnfollowReadLog(p)
    \/ UnfollowRemove(p)
    \/ UnfollowSet(p)

QuerySteps(p) ==
    \/ IsFollowingGetWho(p)
    \/ IsFollowingGetWhom(p)
    \/ IsFollowingGetMarker(p)
    \/ FollowingGetWho(p)
    \/ FollowingListGet(p)

TribSteps(p) ==
    \/ PostGet(p)
    \/ PostClock(p)
    \/ PostAppend(p)
    \/ TribsGet(p)
    \/ TribsListGet(p)
    \/ TribsRemove(p)
    \/ HomeGet(p)

\* concurrent sign_up and list_users on empty back ends
NextSignUp ==
    \E p \in Procs :
        \/ StartSignUp(p, SignUpNames)
        \/ StartListUsers(p)
        \/ SignUpSteps(p)
SpecSignUp == Init /\ [][NextSignUp]_vars

\* one task signing up and listing users on empty back ends, every call
\* returning before the next one starts
NextSignUpSeq ==
    \/ StartSignUp(1, Names)
    \/ StartListUsers(1)
    \/ SignUpSteps(1)
SpecSignUpSeq == Init /\ [][NextSignUpSeq]_vars

\* concurrent follow and unfollow among signed-up users
NextFollow ==
    \E p \in Procs :
        \/ StartFollow(p, RaceWho, RaceWhom)
        \/ StartUnfollow(p, RaceWho, RaceWhom)
        \/ FollowSteps(p)
SpecFollow == (InitSigned \/ InitFollowed) /\ [][NextFollow]_vars

\* one task: every call returns before the next one starts
NextSeq ==
    \/ StartFollow(1, Callers, Users)
    \/ StartUnfollow(1, Callers, Users)
    \/ StartIsFollowing(1, Callers, Users)
    \/ StartFollowing(1, Callers)
    \/ FollowSteps(1)
    \/ QuerySteps(1)
SpecSeq == InitSigned /\ [][NextSeq]_vars

\* every method, concurrently, on empty back ends or among signed-up users
Next ==
    \E p \in Procs :
        \/ StartSignUp(p, AllNames)
        \/ StartListUsers(p)
        \/ StartPost(p, AllWho, Messages, Hints)
        \/ StartTribs(p, AllWho)
        \/ StartHome(p, AllWho)
        \/ StartFollow(p, AllWho, AllWhom)
        \/ StartUnfollow(p, AllWho, AllWhom)
        \/ StartIsFollowing(p, AllWho, AllWhom)
        \/ StartFollowing(p, AllWho)
        \/ SignUpSteps(p)
        \/ TribSteps(p)
        \/ FollowSteps(p)
        \/ QuerySteps(p)
Spec == (Init \/ InitPosted) /\ [][Next]_vars

\* the users posting and read in the behaviours about tribs: "a" and its followee
TribWho == {"a", "d"}

\* the clock hints of their posts: none, and one ahead of the back ends
TribHints == {0, MaxHint}

\* concurrent post, tribs and home, on empty back ends or after some posts
NextTrib ==
    \E p \in Procs :
        \/ StartPost(p, TribWho, Messages, TribHints)
        \/ StartTribs(p, TribWho)
        \/ StartHome(p, AllWho)
        \/ TribSteps(p)
        \/ FollowingGetWho(p)
        \/ FollowingListGet(p)
SpecTrib == (Init \/ InitPosted) /\ [][NextTrib]_vars

\* one task posting, reading, following and unfollowing among signed-up users
NextTribSeq ==
    \/ StartPost(1, TribWho, Messages, Hints)
    \/ StartTribs(1, TribWho)
    \/ StartHome(1, AllWho)
    \/ StartFollow(1, AllWho, AllWhom)
    \/ StartUnfollow(1, AllWho, AllWhom)
    \/ TribSteps(1)
    \/ FollowSteps(1)
    \/ FollowingGetWho(1)
    \/ FollowingListGet(1)
SpecTribSeq == (InitSigned \/ InitPosted) /\ [][NextTribSeq]_vars

\* serve_keeper started among signed-up users, with or without its channels,
\* while front ends obtain clocks and the host shuts things down
InitKeeper ==
    /\ kv = [b \in Bins |-> [k \in Names |-> IF b \in Users /\ k = b THEN "F" ELSE NoneV]]
    /\ lists = [b \in Bins |-> [k \in ListKeys |->
                  IF b = General /\ k = "users"
                  THEN SubSeq(NameOrder, 1, IF MIN_LIST_USER < Len(NameOrder)
                                            THEN MIN_LIST_USER ELSE Len(NameOrder))
                  ELSE <<>>]]
    /\ clock = [b \in Backs |-> 0]
    /\ pc = [p \in Procs |-> "idle"]
    /\ loc = [p \in Procs |-> NoCall]
    /\ ret = [p \in Procs |-> NoRet]
    /\ calls = 0
    /\ signedOk = [u \in Users |-> TRUE]
    /\ signOrder = NameOrder
    /\ lastOk = [a \in Users |-> [b \in Users |-> "none"]]
    /\ gh = [p \in Procs |-> NoGh]
    /\ kvCalls = [p \in Procs |-> "none"]
    /\ \E ready \in BOOLEAN, shutdown \in {"None", "open"} :
          keeper = KeeperEntered(ready, shutdown)
    /\ store = StoreEmpty
    /\ collected = NoneCollected
    /\ server = NewFrontServer
NextKeeper ==
    \/ KeeperSteps
    \/ SendShutdown
    \/ DropShutdown
    \/ \E b \in Backs : BackDown(b)
    \/ \E b \in Backs, at_least \in Hints : FrontClock(b, at_least)
SpecKeeper == InitKeeper /\ [][NextKeeper]_vars
\* the keeper is a task of its own: it takes its next step whenever it can
SpecKeeperFair == SpecKeeper /\ WF_vars(KeeperSteps)

\* calls through the bin layer alone: bins that hold some keys already, and tasks
\* that each call bin(name) and one method of the client it returns
InitPairs == {<<(<<"a">>), (<<"b">>)>>, <<(<<"a">>), (<<"k", "b">>)>>,
              <<(<<"c">>), (<<"k", "b">>)>>, <<(<<>>), (<<"b">>)>>}
InitBins ==
    /\ \E S \in SUBSET InitPairs :
          /\ kv = [n \in BinNames |-> [k \in BinKeys |->
                     IF <<n, k>> \in S THEN "x" ELSE NoneV]]
          /\ store = [b \in Backs |->
                [kv |-> [key \in {prefix_key(user_storage_name(nk[1]), nk[2]) :
                                    nk \in {x \in S : addr(1, x[1]) = b}} |-> "x"],
                 lists |-> [key \in {prefix_key(user_storage_name(nk[1]), nk[2]) :
                                       nk \in {x \in S : addr(1, x[1]) = b}} |-> <<"x">>]]]
          /\ lists = [n \in BinNames |-> [k \in BinKeys |->
                        IF <<n, k>> \in S THEN <<"x">> ELSE <<>>]]
    /\ clock = [b \in Backs |-> 0]
    /\ pc = [p \in Procs |-> "idle"]
    /\ loc = [p \in Procs |-> NoCall]
    /\ ret = [p \in Procs |-> NoRet]
    /\ calls = 0
    /\ signedOk = [u \in Users |-> FALSE]
    /\ signOrder = <<>>
    /\ lastOk = [a \in Users |-> [b \in Users |-> "none"]]
    /\ gh = [p \in Procs |-> NoGh]
    /\ kvCalls = [p \in Procs |-> "none"]
    /\ keeper = KeeperOff
    /\ collected = NoneCollected
    /\ server = NewFrontServer

NextBins ==
    \E p \in Procs, name \in BinNames :
       \/ \E key \in BinKeys : BinGet(p, name, key)
       \/ \E key \in BinKeys, value \in BinValues : BinSet(p, name, key, value)
       \/ \E prefix \in Prefixes, suffix \in Suffixes : BinKeysOf(p, name, prefix, suffix)
       \/ \E key \in BinKeys : BinListGet(p, name, key)
       \/ \E key \in BinKeys, value \in BinValues : BinListAppend(p, name, key, value)
       \/ \E key \in BinKeys, value \in BinValues : BinListRemove(p, name, key, value)
       \/ \E prefix \in Prefixes, suffix \in Suffixes : BinListKeys(p, name, prefix, suffix)
SpecBins == InitBins /\ [][NextBins]_vars

(* ------------------------------ reading the state --------------------- *)
Done(p) == pc[p] = "done"
Concurrent(p, q) == q \in gh[p].conc \/ p \in gh[q].conc
SameCall(p, q, op) ==
    /\ loc[p].op = op /\ loc[q].op = op
    /\ loc[p].who = loc[q].who /\ loc[p].whom = loc[q].whom

\* the place of the entry of task p's follow or unfollow in the log, 0 when it has none
EntryPos(p) ==
    LET log == lists[loc[p].who]["log"]
        e == LogEntry(loc[p].clk, loc[p].op, loc[p].whom)
        at == {i \in 1..Len(log) : log[i] = e}
    IN  IF loc[p].who \in Users /\ at # {} THEN CHOOSE i \in at : TRUE ELSE 0

IsEntry(e, follow_string, whom) ==
    /\ Len(Split(e)) = 3
    /\ Split(e)[2] = <<follow_string>>
    /\ Split(e)[3] = <<whom>>

\* whether the first n entries of the log, applied in list order, leave whom followed
RECURSIVE LogFollows(_, _, _)
LogFollows(log, n, whom) ==
    IF n = 0 THEN FALSE
    ELSE IF IsEntry(log[n], "follow", whom) THEN TRUE
    ELSE IF IsEntry(log[n], "unfollow", whom) THEN FALSE
    ELSE LogFollows(log, n - 1, whom)

UnfollowEntries(log, from, to, whom) ==
    {i \in (from + 1)..to : IsEntry(log[i], "unfollow", whom)}
FollowEntries(log, from, to, whom) ==
    {i \in (from + 1)..to : IsEntry(log[i], "follow", whom)}
Min(x, y) == IF x < y THEN x ELSE y

(* ------------------------------ C1 ------------------------------------ *)
\* two follow(a, b) calls that overlapped and have both returned, a's stored
\* followee list without b and below MAX_FOLLOWING when each started, a's log
\* leaving b not followed then, and no unfollow(a, b) entry logged since
RacedFollows(p, q) ==
    /\ p # q /\ Done(p) /\ Done(q)
    /\ SameCall(p, q, "follow")
    /\ loc[p].who \in Users /\ loc[p].whom \in Users
    /\ Concurrent(p, q)
    /\ ~Contains(gh[p].fl, loc[p].whom) /\ ~Contains(gh[q].fl, loc[q].whom)
    /\ Len(gh[p].fl) < MAX_FOLLOWING /\ Len(gh[q].fl) < MAX_FOLLOWING
    /\ LET log == lists[loc[p].who]["log"]
       IN  /\ ~LogFollows(log, gh[p].ll, loc[p].whom) /\ ~LogFollows(log, gh[q].ll, loc[q].whom)
           /\ UnfollowEntries(log, Min(gh[p].ll, gh[q].ll), Len(log), loc[p].whom) = {}

\* C1 as stated: if a does not follow b and two or more follow(a, b) calls run
\* concurrently, with no unfollow(a, b) running, exactly one of them returns Ok
\* and every other one returns AlreadyFollowing.
C1_Original ==
    \A p, q \in Procs :
        RacedFollows(p, q) =>
            /\ {ret[p].tag, ret[q].tag} \subseteq {"Ok", "AlreadyFollowing"}
            /\ ~(ret[p].tag = "Ok" /\ ret[q].tag = "Ok")
            /\ LET log == lists[loc[p].who]["log"]
                   since == Min(gh[p].ll, gh[q].ll)
               IN  Cardinality(FollowEntries(log, since, Len(log), loc[p].whom)) <= 2
                      => "Ok" \in {ret[p].tag, ret[q].tag}

\* What the race does give (C1's divergence is the limit test alone): of two
\* follow(a, b) calls that overlapped, that both found fewer than MAX_FOLLOWING
\* stored followees at their limit test, whose log entries have no
\* unfollow(a, b) entry between them, and where the log before the earlier
\* entry leaves b not followed, the one whose entry is earlier in the log
\* returns Ok and the other returns AlreadyFollowing.
BelowLimitRaceHasOneWinner ==
    \A p, q \in Procs :
        (/\ p # q /\ Done(p) /\ Done(q)
         /\ SameCall(p, q, "follow")
         /\ Concurrent(p, q)
         /\ ret[p].tag # "FollowingTooMany" /\ ret[q].tag # "FollowingTooMany"
         /\ 0 < EntryPos(p) /\ EntryPos(p) < EntryPos(q)
         /\ LET log == lists[loc[p].who]["log"]
            IN  /\ ~LogFollows(log, EntryPos(p) - 1, loc[p].whom)
                /\ UnfollowEntries(log, EntryPos(p), EntryPos(q), loc[p].whom) = {})
        => (ret[p].tag = "Ok" /\ ret[q].tag = "AlreadyFollowing")

\* two overlapping follow(a, b) calls have returned, one Ok and one AlreadyFollowing
BelowLimitRaceReached ==
    \E p, q \in Procs :
        /\ RacedFollows(p, q)
        /\ 0 < EntryPos(p) /\ EntryPos(p) < EntryPos(q)
        /\ ret[p].tag = "Ok" /\ ret[q].tag = "AlreadyFollowing"

(* ------------------------------ the queries, on the current state ------ *)
\* front.rs:416-467: what is_following(who, whom) returns when no call on
\* who's bin runs between its reads
IsFollowingNow(who, whom) ==
    IF ~is_valid_username(who) THEN Err("InvalidUsername", who)
    ELSE IF ~is_valid_username(whom) THEN Err("InvalidUsername", whom)
    ELSE IF Get(who, who) = NoneV THEN Err("UserDoesNotExist", who)
    ELSE IF Get(whom, whom) = NoneV THEN Err("UserDoesNotExist", whom)
    ELSE MarkerAnswer(Get(who, whom))

\* front.rs:469-489: what following(who) returns
FollowingNow(who) ==
    IF ~is_valid_username(who) THEN Err("InvalidUsername", who)
    ELSE IF Get(who, who) = NoneV THEN Err("UserDoesNotExist", who)
    ELSE Ret("Ok", "", ListGet(who, "followees"), FALSE)

\* front.rs:62-68: what list_users() returns
ListUsersNow == Ret("Ok", "", SortNames(ListGet(General, "users")), FALSE)

Sorted(s) == \A i \in 1..Len(s) : \A j \in i..Len(s) : Rank(s[i]) <= Rank(s[j])
NoDuplicates(s) == \A i \in 1..Len(s) : \A j \in 1..Len(s) : s[i] = s[j] => i = j
FollowBusy(who) ==
    \E p \in Procs : Running(p) /\ loc[p].who = who /\ loc[p].op \in {"follow", "unfollow"}

(* ------------------------------ C2 ------------------------------------ *)
\* C2: in every reachable state the list following(who) returns has at most
\* MAX_FOLLOWING entries, also when follows by one user for different targets
\* race one below the limit.
C2_Original ==
    \A who \in Users :
        FollowingNow(who).tag = "Ok" => Len(FollowingNow(who).val) <= MAX_FOLLOWING

(* ------------------------------ C3 ------------------------------------ *)
\* C3: follow(who, who) returns an error for every signed-up who, and leaves
\* who's log, followee list and stored keys unchanged.
C3_Original ==
    [][\A p \in Procs :
         (/\ loc'[p].op = "follow"
          /\ loc'[p].who = loc'[p].whom
          /\ gh'[p].signedWho)
         => /\ lists'[loc'[p].who] = lists[loc'[p].who]
            /\ kv'[loc'[p].who] = kv[loc'[p].who]
            /\ pc'[p] = "done" => ret'[p].tag \notin {"Ok", "none"}]_vars

(* ------------------------------ C4 ------------------------------------ *)
\* C4: in a sequential execution with signed-up a # b, follow(a, b) issued while
\* a already follows b returns AlreadyFollowing, and unfollow(a, b) issued while
\* a does not follow b returns NotFollowing.  (Read where a's followees are
\* other users only.)
C4_Original ==
    \A p \in Procs :
        (/\ Done(p)
         /\ loc[p].who # loc[p].whom
         /\ ~Contains(gh[p].fl, loc[p].who)
         /\ gh[p].signedWho /\ gh[p].signedWhom)
        => /\ (loc[p].op = "follow" /\ Contains(gh[p].fl, loc[p].whom))
                 => ret[p].tag = "AlreadyFollowing"
           /\ (loc[p].op = "unfollow" /\ ~Contains(gh[p].fl, loc[p].whom))
                 => ret[p].tag = "NotFollowing"

(* ------------------------------ C5 ------------------------------------ *)
\* C5: sequentially, for signed-up a # b: after follow(a, b) returned Ok and then
\* unfollow(a, b) returned Ok, is_following(a, b) is false and following(a) lacks
\* b; after follow(a, b) alone returned Ok, is_following(a, b) is true and
\* following(a) contains b.  (lastOk[a][b] is the later of the two that
\* returned Ok; both the calls made and the answers a call would get are read.)
C5_FollowThenUnfollow ==
    /\ (\A p \in Procs : ~Running(p)) =>
          \A a \in Users, b \in Users :
             (a # b /\ lastOk[a][b] # "none") =>
                /\ IsFollowingNow(a, b) = Ret("Ok", "", <<>>, lastOk[a][b] = "follow")
                /\ Contains(FollowingNow(a).val, b) <=> lastOk[a][b] = "follow"
    /\ \A p \in Procs :
          /\ (Done(p) /\ loc[p].who # loc[p].whom /\ loc[p].op = "is_following"
                /\ lastOk[loc[p].who][loc[p].whom] # "none")
                => ret[p] = Ret("Ok", "", <<>>, lastOk[loc[p].who][loc[p].whom] = "follow")
          /\ (Done(p) /\ loc[p].op = "following")
                => \A b \in Users \ {loc[p].who} :
                      lastOk[loc[p].who][b] # "none" =>
                         (Contains(ret[p].val, b) <=> lastOk[loc[p].who][b] = "follow")

\* follow(a, b) and then unfollow(a, b) have returned Ok, a # b
C5_Witness ==
    \E p \in Procs, a \in Users :
        \E b \in Users \ {a} :
            /\ Done(p) /\ loc[p].op = "unfollow" /\ loc[p].who = a /\ loc[p].whom = b
            /\ ret[p].tag = "Ok" /\ lastOk[a][b] = "unfollow"

(* ------------------------------ C6 ------------------------------------ *)
\* C6: sequentially, once a has MAX_FOLLOWING followees, follow(a, c) for a
\* signed-up c # a that a does not follow returns FollowingTooMany and adds no
\* followee; every such follow before the limit is reached returns Ok.
C6_LimitSequential ==
    \A p \in Procs :
        (/\ Done(p) /\ loc[p].op = "follow" /\ loc[p].who # loc[p].whom
         /\ gh[p].signedWho /\ gh[p].signedWhom
         /\ ~Contains(gh[p].fl, loc[p].whom))
        => IF Len(gh[p].fl) >= MAX_FOLLOWING
           THEN /\ ret[p].tag = "FollowingTooMany"
                /\ lists[loc[p].who]["followees"] = gh[p].fl
           ELSE ret[p].tag = "Ok"

\* a follow of a new, other user has been refused at the limit
C6_Witness ==
    \E p \in Procs :
        /\ Done(p) /\ loc[p].op = "follow" /\ loc[p].who # loc[p].whom
        /\ Len(gh[p].fl) = MAX_FOLLOWING /\ ~Contains(gh[p].fl, loc[p].whom)
        /\ ~Contains(gh[p].fl, loc[p].who)
        /\ ret[p].tag = "FollowingTooMany"

(* ------------------------------ C7 ------------------------------------ *)
\* C7: whenever no follow or unfollow by who is in progress, is_following(who,
\* whom) is true exactly when whom is in following(who), for every signed-up
\* pair who # whom, also after racing follow and unfollow calls have returned.
C7_Original ==
    \A who \in Users :
        ~FollowBusy(who) =>
            \A whom \in Users \ {who} :
                (IsFollowingNow(who, whom).tag = "Ok" /\ FollowingNow(who).tag = "Ok")
                => (IsFollowingNow(who, whom).flag <=> Contains(FollowingNow(who).val, whom))

(* ------------------------------ C8 ------------------------------------ *)
\* C8: sign_up(u) for a valid u that has not signed up (no marker when the call
\* starts, no other call overlapping it) returns Ok, and every sign_up(u) that
\* starts after a sign_up(u) has returned Ok fails with UsernameTaken.
C8_SignUpOnce ==
    \A p \in Procs :
        (Done(p) /\ loc[p].op = "sign_up" /\ is_valid_username(loc[p].who))
        => /\ gh[p].signedWho => ret[p] = Err("UsernameTaken", loc[p].who)
           /\ (gh[p].absent /\ gh[p].alone) => ret[p] = Ok

\* a sign_up started after a sign_up of the same name returned Ok, and has failed
C8_Witness ==
    \E p \in Procs :
        /\ Done(p) /\ loc[p].op = "sign_up" /\ gh[p].signedWho
        /\ ret[p].tag = "UsernameTaken"

(* ------------------------------ C9 ------------------------------------ *)
\* C9: once sign_up(u) has returned Ok, u stays signed up: in every later state
\* u's signup marker is present, no step of any operation removes a signup marker
\* that is present, and no operation returns UserDoesNotExist(u) for a user u whose
\* sign_up has returned Ok.
C9_SignedUpForever ==
    /\ [](\A u \in Users : signedOk[u] => Get(u, u) # NoneV)
    /\ [][/\ \A u \in Users : kv[u][u] # NoneV => kv'[u][u] # NoneV
          /\ \A p \in Procs :
                (pc[p] # "done" /\ pc'[p] = "done" /\ ret'[p].tag = "UserDoesNotExist")
                => ~signedOk[ret'[p].name]]_vars

\* on back ends that were empty, sign_up("a") returned Ok and later an
\* unfollow("a", "a") returned Ok, having rewritten the key "a" of a's bin
C9_Witness ==
    /\ kv["b"]["b"] = NoneV
    /\ signedOk["a"] /\ kv["a"]["a"] = "F"
    /\ \E p \in Procs :
          /\ Done(p) /\ loc[p].op = "unfollow" /\ loc[p].who = "a" /\ loc[p].whom = "a"
          /\ ret[p] = Ok

(* ------------------------------ C10 ----------------------------------- *)
\* C10: in every reachable state, also after sign_up calls that ran
\* concurrently, list_users() returns a list that is sorted ascending, has no
\* name twice and has at most MIN_LIST_USER names.
C10_Original ==
    /\ Sorted(ListUsersNow.val)
    /\ NoDuplicates(ListUsersNow.val)
    /\ Len(ListUsersNow.val) <= MIN_LIST_USER

(* ------------------------------ C11 ----------------------------------- *)
\* the users whose sign_up returned Ok before the i-th sign_up that did
SignedBefore(i) == {signOrder[j] : j \in 1..(i - 1)}

\* C11: every user whose sign_up returned Ok while fewer than MIN_LIST_USER users
\* had signed up is in what list_users() returns from then on.
C11_Original ==
    \A i \in 1..Len(signOrder) :
        Cardinality(SignedBefore(i)) < MIN_LIST_USER
        => Contains(ListUsersNow.val, signOrder[i])

(* ------------------------------ C12 ----------------------------------- *)
IsSignedOk(n) == signedOk[n]
\* the names whose sign_up returned Ok, ascending
SignedNames == SelectSeq(NameOrder, IsSignedOk)

\* C12: once more than MIN_LIST_USER users have signed up, in whatever order,
\* list_users() returns the MIN_LIST_USER alphabetically smallest of their names.
C12_Original ==
    (Len(SignedNames) > MIN_LIST_USER /\ \A p \in Procs : ~Running(p))
    => ListUsersNow.val = SubSeq(SignedNames, 1, MIN_LIST_USER)

(* ------------------------------ C13 ----------------------------------- *)
\* the names of the first MIN_LIST_USER sign_up calls that returned Ok
FirstSignedUp == {signOrder[i] : i \in 1..Min(Len(signOrder), MIN_LIST_USER)}

\* C13: when every call returns before the next one starts, list_users() returns,
\* ascending, exactly the names of the first MIN_LIST_USER successful sign_up calls:
\* a name that signed up after MIN_LIST_USER others is never listed.
C13_FirstSignUpsListed ==
    /\ Sorted(ListUsersNow.val)
    /\ Len(ListUsersNow.val) = Min(Len(signOrder), MIN_LIST_USER)
    /\ {ListUsersNow.val[i] : i \in 1..Len(ListUsersNow.val)} = FirstSignedUp
    /\ \A p \in Procs :
        (Done(p) /\ loc[p].op = "list_users") => ret[p] = ListUsersNow

\* more than MIN_LIST_USER users have signed up, in an order that is not the
\* alphabetical one, and the last of them is not listed
C13_Witness ==
    /\ Len(signOrder) > MIN_LIST_USER
    /\ ~Sorted(signOrder)
    /\ ~Contains(ListUsersNow.val, signOrder[Len(signOrder)])
    /\ \A p \in Procs : ~Running(p)

(* ------------------------------ C14 ----------------------------------- *)
\* task p enters a call of op in this step
Enters(p, op) == pc[p] \in {"idle", "done"} /\ calls' = calls + 1 /\ loc'[p].op = op
\* the call of op task p is in returns in this step
Returns(p, op) == Running(p) /\ pc'[p] = "done" /\ loc[p].op = op

\* C14: post(who, msg, hint) with len(msg) > MAX_TRIB_LEN returns TribTooLong,
\* whether or not who has signed up, and stores nothing; with a signed-up who and
\* len(msg) = MAX_TRIB_LEN it returns Ok, and it appends exactly one trib, of who
\* and msg, to who's list tribs, changing nothing else that is stored.
C14_PostLength ==
    /\ [](\A p \in Procs :
            (Done(p) /\ loc[p].op = "post" /\ is_valid_username(loc[p].who))
            => /\ Len(loc[p].post) > MAX_TRIB_LEN => ret[p] = Err("TribTooLong", "")
               /\ (Len(loc[p].post) = MAX_TRIB_LEN /\ gh[p].signedWho) => ret[p] = Ok)
    /\ [][\A p \in Procs :
            /\ (Enters(p, "post") /\ Len(loc'[p].post) > MAX_TRIB_LEN)
               => pc'[p] = "done" /\ kv' = kv /\ lists' = lists
            /\ (Returns(p, "post") /\ ret'[p] = Ok)
               => /\ kv' = kv
                  /\ \E s \in {lists'[loc[p].who]["tribs"][i] :
                                 i \in 1..Len(lists'[loc[p].who]["tribs"])} :
                        /\ lists' = ListAppend(loc[p].who, "tribs", s)
                        /\ TribFromString(s).user = loc[p].who
                        /\ TribFromString(s).message = loc[p].post
            /\ (loc[p].op = "post" /\ Running(p) /\ pc'[p] # pc[p] /\ ret'[p] # Ok)
               => lists' = lists /\ kv' = kv]_vars

\* a post longer than MAX_TRIB_LEN by a user that has not signed up has returned
\* TribTooLong
C14_Witness ==
    \E p \in Procs :
        /\ Done(p) /\ loc[p].op = "post" /\ is_valid_username(loc[p].who)
        /\ Len(loc[p].post) > MAX_TRIB_LEN /\ ~gh[p].signedWho
        /\ Get(loc[p].who, loc[p].who) = NoneV
        /\ ret[p] = Err("TribTooLong", "")

\* a post of MAX_TRIB_LEN by a signed-up user has returned Ok
PostOfMaxLenReached ==
    \E p \in Procs :
        /\ Done(p) /\ loc[p].op = "post" /\ gh[p].signedWho
        /\ Len(loc[p].post) = MAX_TRIB_LEN /\ ret[p] = Ok

(* ------------------------------ C15 ----------------------------------- *)
\* the tribs stored for user
StoredTribs(user) == TribsFromStrings(ListGet(user, "tribs"))

\* C15: the clock a post obtains is at least its hint and greater than every clock
\* its back end has given out before, which bounds the clock of every trib stored
\* on that back end and of every post that has obtained its clock and not stored
\* its trib yet; the trib a post stores carries the clock the post obtained.
C15_PostClock ==
    /\ [](\A u \in Users : \A i \in 1..Len(StoredTribs(u)) :
            StoredTribs(u)[i].clock <= clock[BackOf(u)])
    /\ [](\A p \in Procs :
            pc[p] = "po_append" => loc[p].clk <= clock[BackOf(loc[p].who)])
    /\ [][\A p \in Procs :
            /\ (pc[p] = "po_clock" /\ pc'[p] = "po_append")
               => /\ loc'[p].clk >= loc[p].clock
                  /\ loc'[p].clk > clock[BackOf(loc[p].who)]
            /\ (Returns(p, "post") /\ ret'[p] = Ok)
               => LET stored == TribsFromStrings(lists'[loc[p].who]["tribs"])
                  IN  stored[Len(stored)].clock = loc[p].clk]_vars

\* a user's second post has stored its trib with a clock above its hint,
\* above the clock of the user's earlier trib
C15_Witness ==
    \E p \in Procs :
        /\ Done(p) /\ loc[p].op = "post" /\ ret[p] = Ok
        /\ loc[p].clk > loc[p].clock
        /\ \E i \in 1..Len(StoredTribs(loc[p].who)) :
              StoredTribs(loc[p].who)[i].clock < loc[p].clk
        /\ \E i \in 1..Len(StoredTribs(loc[p].who)) :
              StoredTribs(loc[p].who)[i].clock = loc[p].clk

(* ------------------------------ C16 ----------------------------------- *)
\* trib a comes before trib b in the order by (clock, time, user, message)
Before(a, b) ==
    \/ a.clock < b.clock
    \/ a.clock = b.clock /\ a.time < b.time
    \/ a.clock = b.clock /\ a.time = b.time /\ Rank(a.user) < Rank(b.user)
    \/ a.clock = b.clock /\ a.time = b.time /\ a.user = b.user
       /\ Len(a.message) < Len(b.message)
Range(s) == {s[i] : i \in 1..Len(s)}
\* vector r is ascending and holds the greatest entries of vector s, at most
\* MAX_TRIB_FETCH of them
GreatestOf(r, s) ==
    /\ Len(r) = Min(Len(s), MAX_TRIB_FETCH)
    /\ \A i \in 1..Len(r) : \A j \in (i + 1)..Len(r) : Before(r[i], r[j])
    /\ Range(r) \subseteq Range(s)
    /\ \A t \in Range(s) \ Range(r) : \A i \in 1..Len(r) : Before(t, r[i])

\* C16: tribs(u) for a signed-up u returns Ok with at most MAX_TRIB_FETCH tribs,
\* ascending by (clock, time, user, message): the greatest entries in that order of
\* the list tribs of u as the call read it, the entries it drops being the smallest.
C16_TribsNewest ==
    /\ [](\A p \in Procs :
            (Done(p) /\ loc[p].op = "tribs" /\ is_valid_username(loc[p].who)
               /\ ~gh[p].absent)
            => ret[p].tag = "Ok" /\ Len(ret[p].val) <= MAX_TRIB_FETCH)
    /\ [][\A p \in Procs :
            /\ (pc[p] = "tr_list" /\ pc'[p] # pc[p] /\ loc[p].op = "tribs")
               => GreatestOf(IF pc'[p] = "done" THEN ret'[p].val ELSE loc'[p].tv,
                             StoredTribs(loc[p].who))
            /\ (pc[p] = "tr_remove" /\ Returns(p, "tribs"))
               => ret'[p] = Ret("Ok", "", loc[p].tv, FALSE)]_vars

\* a tribs call that found more than MAX_TRIB_FETCH tribs stored has returned
\* MAX_TRIB_FETCH of them
C16_Witness ==
    \E p \in Procs :
        /\ Done(p) /\ loc[p].op = "tribs" /\ ret[p].tag = "Ok"
        /\ Len(gh[p].tl) > MAX_TRIB_FETCH
        /\ Len(ret[p].val) = MAX_TRIB_FETCH

(* ------------------------------ C17 ----------------------------------- *)
\* the last MAX_TRIB_FETCH entries of a list of more than that many
LastPosted(l) == SubSeq(l, Len(l) - MAX_TRIB_FETCH + 1, Len(l))

\* C17: when every call returns before the next one starts and tribs(u) returns Ok
\* after more than MAX_TRIB_FETCH posts of u were stored, the list tribs of u
\* holds exactly MAX_TRIB_FETCH entries: the MAX_TRIB_FETCH posts made last.
C17_GarbageCollected ==
    \A p \in Procs :
        (Done(p) /\ loc[p].op = "tribs" /\ ret[p].tag = "Ok"
           /\ Len(gh[p].tl) > MAX_TRIB_FETCH)
        => /\ Len(ListGet(loc[p].who, "tribs")) = MAX_TRIB_FETCH
           /\ ListGet(loc[p].who, "tribs") = LastPosted(gh[p].tl)

\* tribs has returned after a post that made the list longer than MAX_TRIB_FETCH,
\* a post with the wall-clock time of the posts before it
C17_Witness ==
    \E p \in Procs :
        /\ Done(p) /\ loc[p].op = "tribs" /\ ret[p].tag = "Ok"
        /\ Len(gh[p].tl) > MAX_TRIB_FETCH
        /\ \A i \in 1..Len(gh[p].tl) : TribFromString(gh[p].tl[i]).time = 0
        /\ Len(TribFromString(gh[p].tl[Len(gh[p].tl)]).message) = 0

(* ------------------------------ C18 ----------------------------------- *)
\* C18: in the state a tribs(u) call returns Ok in, the list tribs of u has at most
\* MAX_TRIB_FETCH entries, whatever calls run concurrently with it.
C18_Original ==
    [][\A p \in Procs :
         (Returns(p, "tribs") /\ ret'[p].tag = "Ok")
         => Len(lists'[loc[p].who]["tribs"]) <= MAX_TRIB_FETCH]_vars

(* ------------------------------ C19 ----------------------------------- *)
\* the number of places vector s holds trib t at
Count(s, t) == Cardinality({i \in 1..Len(s) : s[i] = t})
\* vector r is ascending and is the tail, of at most MAX_TRIB_FETCH tribs, of the
\* merged vector s put in order
TailOf(r, s) ==
    /\ Len(r) = Min(Len(s), MAX_TRIB_FETCH)
    /\ \A i \in 1..Len(r) : \A j \in (i + 1)..Len(r) : ~Before(r[j], r[i])
    /\ \A t \in Range(r) : Count(r, t) <= Count(s, t)
    /\ \A t \in Range(s) :
          Count(r, t) < Count(s, t) => \A i \in 1..Len(r) : ~Before(r[i], t)

\* C19: home(u) of a signed-up u returns Ok with at most MAX_TRIB_FETCH tribs,
\* ascending by (clock, time, user, message); when the tribs it merged are more
\* than MAX_TRIB_FETCH, it returns the greatest ones of them.
C19_HomeTail ==
    \A p \in Procs :
        (Done(p) /\ loc[p].op = "home" /\ is_valid_username(loc[p].who)
           /\ ~gh[p].absent)
        => /\ ret[p].tag = "Ok"
           /\ Len(ret[p].val) <= MAX_TRIB_FETCH
           /\ TailOf(ret[p].val, loc[p].acc)

\* home has merged more than MAX_TRIB_FETCH tribs, of the user and of a followee,
\* not in ascending order, and has dropped one of them
C19_Witness ==
    \E p \in Procs :
        /\ Done(p) /\ loc[p].op = "home" /\ ret[p].tag = "Ok"
        /\ Len(loc[p].acc) > MAX_TRIB_FETCH
        /\ \E i \in 1..Len(loc[p].acc) : loc[p].acc[i].user # loc[p].who
        /\ \E i \in 1..Len(loc[p].acc) : \E j \in (i + 1)..Len(loc[p].acc) :
              Before(loc[p].acc[j], loc[p].acc[i])
        /\ \E i \in 1..Len(loc[p].acc) : loc[p].acc[i] \notin Range(ret[p].val)

(* ------------------------------ C20 ----------------------------------- *)
\* user and the users following(user) returns
HomeUsers(user) == {user} \cup Range(ListGet(user, "followees"))
\* the number of tribs stored for the users of a set
RECURSIVE StoredCount(_)
StoredCount(S) ==
    IF S = {} THEN 0
    ELSE LET u == CHOOSE x \in S : TRUE
         IN  Len(ListGet(u, "tribs")) + StoredCount(S \ {u})

\* home(user) returned r: only tribs of user and of its followees, and every
\* stored one of them exactly once when they are at most MAX_TRIB_FETCH
HomeShows(user, r) ==
    /\ \A i \in 1..Len(r) : r[i].user \in HomeUsers(user)
    /\ StoredCount(HomeUsers(user)) <= MAX_TRIB_FETCH
       => /\ Len(r) = StoredCount(HomeUsers(user))
          /\ \A u \in HomeUsers(user) : \A t \in Range(StoredTribs(u)) : Count(r, t) = 1

\* C20: when every call returns before the next one starts, home(u) contains only
\* tribs of u and of the users in following(u), contains every stored trib of
\* theirs exactly once when these are at most MAX_TRIB_FETCH, and contains no
\* trib of a user u has unfollowed last.
C20_Original ==
    \A p \in Procs :
        (Done(p) /\ loc[p].op = "home" /\ ret[p].tag = "Ok")
        => /\ HomeShows(loc[p].who, ret[p].val)
           /\ \A i \in 1..Len(ret[p].val) :
                 ret[p].val[i].user # loc[p].who
                 => lastOk[loc[p].who][ret[p].val[i].user] # "unfollow"

\* the same for the calls of a user that is not in its own list of followees
HomeWithoutSelfFollow ==
    \A p \in Procs :
        (Done(p) /\ loc[p].op = "home" /\ ret[p].tag = "Ok"
           /\ ~Contains(ListGet(loc[p].who, "followees"), loc[p].who))
        => /\ HomeShows(loc[p].who, ret[p].val)
           /\ \A i \in 1..Len(ret[p].val) :
                 ret[p].val[i].user # loc[p].who
                 => lastOk[loc[p].who][ret[p].val[i].user] # "unfollow"

\* home has returned the tribs of the user and of a followee, and home has
\* returned after the unfollow of a user with stored tribs
HomeOfFolloweeReached ==
    \E p \in Procs :
        /\ Done(p) /\ loc[p].op = "home" /\ ret[p].tag = "Ok"
        /\ \E i \in 1..Len(ret[p].val) : ret[p].val[i].user # loc[p].who
        /\ \E i \in 1..Len(ret[p].val) : ret[p].val[i].user = loc[p].who
HomeAfterUnfollowReached ==
    \E p \in Procs :
        /\ Done(p) /\ loc[p].op = "home" /\ ret[p].tag = "Ok"
        /\ \E v \in Users \ {loc[p].who} :
              lastOk[loc[p].who][v] = "unfollow" /\ Len(ListGet(v, "tribs")) > 0

(* ------------------------------ C21 ----------------------------------- *)
\* C21: a Server call that returns InvalidUsername or TribTooLong has made no
\* key-value call at all, and one that returns UserDoesNotExist has made none that
\* writes (no set, list_append, list_remove or clock): no step of such a call has
\* changed a key, a list or a back-end clock.
C21_ErrorsWriteNothing ==
    \A p \in Procs :
        Done(p)
        => /\ ret[p].tag \in {"InvalidUsername", "TribTooLong"} => kvCalls[p] = "none"
           /\ ret[p].tag = "UserDoesNotExist" => kvCalls[p] = "read"

\* a follow has returned UserDoesNotExist for a whom that has not signed up, after
\* it found who signed up
C21_Witness ==
    \E p \in Procs :
        /\ Done(p) /\ loc[p].op = "follow"
        /\ ret[p] = Err("UserDoesNotExist", loc[p].whom)
        /\ Get(loc[p].who, loc[p].who) # NoneV
        /\ kvCalls[p] = "read"

(* ------------------------------ C22 ----------------------------------- *)
\* the keeper has completed both passes of an iteration
IterationDone == keeper.pc \in {"recv", "sleep"}

\* C22: when the keeper has completed both passes of an iteration, the clock of
\* every back end is at least the greatest clock any back end held when the
\* iteration made its first clock call, whatever clocks front ends obtained
\* meanwhile.
C22_KeeperRaisesClocks ==
    IterationDone => \A b \in Backs : clock[b] >= keeper.start_max

\* an iteration that began with some back end ahead has completed, and a front
\* end has moved a back end beyond the keeper's clock since
C22_Witness ==
    /\ IterationDone
    /\ keeper.start_max >= 1
    /\ \E b \in Backs : clock[b] > keeper.clock
    /\ \E b \in Backs : clock[b] = keeper.clock

(* ------------------------------ C23 ----------------------------------- *)
\* C23: once an iteration is complete, the keeper starts another one, unless a
\* shutdown is requested or a back end becomes unreachable first; with a shutdown
\* channel and without one.
C23_Original ==
    [](IterationDone
       => <>(\/ keeper.pc = "pass1"
             \/ keeper.shutdown = "sent"
             \/ \E b \in Backs : ~keeper.up[b]))

\* the same of a keeper without a shutdown channel
KeeperWithoutChannelIterates ==
    []((IterationDone /\ keeper.shutdown = "None")
       => <>(keeper.pc = "pass1" \/ \E b \in Backs : ~keeper.up[b]))
\* a keeper with a shutdown channel starts no second iteration while the host
\* keeps its sender and sends nothing
KeeperWithChannelWaits ==
    [][(keeper.pc = "recv" /\ keeper'.pc # "recv") => keeper.shutdown # "open"]_vars

(* ------------------------------ C24 ----------------------------------- *)
\* C24: after the shutdown signal was sent, serve_keeper returns Ok and nothing
\* else, whether the back ends are reachable or not.
C24_Original ==
    (keeper.shutdown = "sent" /\ keeper.pc = "returned") => keeper.ret = "Ok"

\* a keeper waiting in recv when the signal is sent returns Ok, also with the
\* back ends shut down
KeeperReturnsOkFromRecv ==
    [][(keeper.pc = "recv" /\ keeper.shutdown = "sent" /\ keeper'.pc # "recv")
       => keeper'.pc = "returned" /\ keeper'.ret = "Ok"]_vars

(* ------------------------------ C25 ----------------------------------- *)
\* C25: a transport error from an unreachable back end aborts the iteration only:
\* it never makes serve_keeper return, with the error or otherwise.
C25_Original ==
    ~(keeper.pc = "returned" /\ keeper.ret = "Err")

(* ------------------------------ C26 ----------------------------------- *)
\* C26: a keeper configured with a ready channel sends ready = true once, never
\* again, and has sent it before it issues its first clock call to a back end.
C26_ReadyOnceFirst ==
    /\ keeper.sent <= 1
    /\ (keeper.ready /\ keeper.pc \notin {"off", "start"}) => keeper.sent = 1
    /\ (keeper.ready /\ keeper.called) => keeper.sent = 1

\* a keeper with a ready channel is in its second iteration
C26_Witness ==
    /\ keeper.ready /\ keeper.sent = 1
    /\ keeper.called /\ keeper.pc = "pass1" /\ keeper.clock > 0

(* ------------------------------ C27 ----------------------------------- *)
BinOps == {"get", "set", "keys", "list_get", "list_append", "list_remove", "list_keys"}

C28_Original ==
    [][\A p \in Procs :
         /\ (loc'[p] # loc[p] /\ loc'[p].op = "get")
            => ret'[p] = kv[loc'[p].name][loc'[p].key]
         /\ (loc'[p] # loc[p] /\ loc'[p].op = "list_get")
            => ret'[p] = lists[loc'[p].name][loc'[p].key]]_vars

\* the same for names and keys without ':'
IsolatedWithoutColons ==
    [][\A p \in Procs :
         (/\ loc'[p] # loc[p]
          /\ \A n \in BinNames, k \in BinKeys :
               (kv[n][k] # NoneV \/ lists[n][k] # <<>>) => ColonFree(n) /\ ColonFree(k))
         => /\ loc'[p].op = "get" => ret'[p] = kv[loc'[p].name][loc'[p].key]
            /\ loc'[p].op = "list_get" => ret'[p] = lists[loc'[p].name][loc'[p].key]]_vars

(* ------------------------------ C29 ----------------------------------- *)
\* the keys of bin name that hold a value (a non-empty list, for list_keys) and
\* match the pattern
Matching(held, prefix, suffix) ==
    {k \in held : StartsWith(k, prefix) /\ EndsWith(k, suffix)}
KeysHeld(name) == {k \in BinKeys : kv[name][k] # NoneV}
ListKeysHeld(name) == {k \in BinKeys : lists[name][k] # <<>>}
\* no bin with ':' in its name holds anything, and bin name holds no key with ':'
ColonFreeAround(name) ==
    /\ ColonFree(name)
    /\ \A k \in KeysHeld(name) \cup ListKeysHeld(name) : ColonFree(k)
    /\ \A n \in BinNames : KeysHeld(n) \cup ListKeysHeld(n) # {} => ColonFree(n)

C30_Original ==
    \A p \in Procs :
       (/\ pc[p] = "done"
        /\ loc[p].op \in {"unfollow", "is_following"}
        /\ loc[p].who = loc[p].whom
        /\ gh[p].signedWho)
       => ret[p].tag # "Ok"

\* unfollow(who, who) returns Ok only after a follow(who, who) that returned Ok
UnfollowSelfOkOnlyAfterSelfFollow ==
    \A p \in Procs :
       (/\ pc[p] = "done" /\ loc[p].op = "unfollow" /\ loc[p].who = loc[p].whom
        /\ ret[p].tag = "Ok")
       => loc[p].who \in Range(gh[p].fl)

(* ------------------------------ C31 ----------------------------------- *)
\* C31: following(who) returns the current followees of who sorted ascending by
\* name, whatever the order in which they were followed.
C31_Original ==
    \A p \in Procs :
       (pc[p] = "done" /\ loc[p].op = "following" /\ ret[p].tag = "Ok")
       => Sorted(ret[p].val)

\* following(who) returns the stored followee list as it is: in one-task
\* behaviours, the followees in the order of the follows that added them
FollowingReturnsStoredList ==
    \A p \in Procs :
       (pc[p] = "done" /\ loc[p].op = "following" /\ ret[p].tag = "Ok")
       => ret[p].val = ListGet(loc[p].who, "followees")

(* ------------------------------ C32 ----------------------------------- *)
\* the followee set the log of who gives when replayed in list order: a follow
\* entry inserts its target, an unfollow entry removes it
LogFollowees(who) ==
    {u \in Users : LogFollows(ListGet(who, "log"), Len(ListGet(who, "log")), u)}

\* C32: whenever no follow or unfollow by who is in progress, the names
\* following(who) returns (the stored followee list) are the followee set the
\* replay of who's log gives, after any sequence and interleaving of follow and
\* unfollow calls.
C32_Original ==
    \A who \in Users :
       ~FollowBusy(who) => Range(ListGet(who, "followees")) = LogFollowees(who)

\* the same when no two calls of who overlapped
ReplayMatchesWhenSequential ==
    \A who \in Callers :
       (pc[1] \in {"idle", "done"}) => Range(ListGet(who, "followees")) = LogFollowees(who)

(* ------------------------------ C33 ----------------------------------- *)
\* C33: follow(a, b) issued while a already follows b and has exactly
\* MAX_FOLLOWING followees returns AlreadyFollowing, not FollowingTooMany.
C33_Original ==
    \A p \in Procs :
       (/\ pc[p] = "done" /\ loc[p].op = "follow"
        /\ gh[p].alone
        /\ loc[p].whom \in Range(gh[p].fl)
        /\ Len(gh[p].fl) = MAX_FOLLOWING)
       => ret[p].tag = "AlreadyFollowing"

\* below the limit it does return AlreadyFollowing
AlreadyFollowingBelowLimit ==
    \A p \in Procs :
       (/\ pc[p] = "done" /\ loc[p].op = "follow"
        /\ gh[p].alone
        /\ loc[p].whom \in Range(gh[p].fl)
        /\ Len(gh[p].fl) < MAX_FOLLOWING)
       => ret[p].tag = "AlreadyFollowing"

(* ------------------------------ C34 ----------------------------------- *)
\* the stored tribs of user that come after trib t in the order of sort_trib
StoredAfter(user, t) ==
    {i \in 1..Len(StoredTribs(user)) : Before(t, StoredTribs(user)[i])}

\* C34: garbage collection never loses a recent post: a trib that a tribs call
\* (of tribs or of home, alone, repeated or concurrent with posts and other
\* collections) has removed from the list of a user has, from its removal on,
\* at least MAX_TRIB_FETCH stored tribs of that user after it; so it was not and
\* is never among the MAX_TRIB_FETCH greatest, and however many collections
\* run, the MAX_TRIB_FETCH greatest stay stored.
C34_CollectedAreOld ==
    \A user \in Users : \A s \in collected[user] :
       /\ Cardinality(StoredAfter(user, TribFromString(s))) >= MAX_TRIB_FETCH
       /\ ~Contains(ListGet(user, "tribs"), s)

\* a tribs call has removed the oldest trib of "a" and returned, and an
\* overlapping tribs call is about to remove the same trib once more
C34_Witness ==
    \E p, q \in Procs :
       /\ pc[p] = "tr_remove" /\ loc[p].cur = "a"
       /\ Head(loc[p].old) \in collected["a"]
       /\ pc[q] = "done" /\ loc[q].op \in {"tribs", "home"}
       /\ p \in gh[q].conc \/ q \in gh[p].conc

(* ------------------------------ C35 ----------------------------------- *)
IsPrefix(s, t) == Len(s) <= Len(t) /\ SubSeq(t, 1, Len(s)) = s

\* task p appends the entry of its follow or unfollow call to the log of user
\* in this step
AppendsOwnEntry(p, user) ==
    /\ loc[p].who = user
    /\ \/ loc[p].op = "follow" /\ pc[p] = "fo_append_log" /\ pc'[p] = "fo_read_log"
       \/ loc[p].op = "unfollow" /\ pc[p] = "un_append_log" /\ pc'[p] = "un_read_log"
    /\ loc[p].clk >= 1 /\ loc[p].clk <= clock[BackOf(user)]
    /\ ListGet(user, "log")' =
          Append(ListGet(user, "log"), LogEntry(loc[p].clk, loc[p].op, loc[p].whom))

\* no entry is in a log twice
LogEntriesDiffer == \A user \in Users : NoDuplicates(ListGet(user, "log"))

\* C35: the log of a user is append-only: every step of every method leaves the
\* log as it was or appends one entry to it, and the appended entry is the
\* <clock>::follow::<whom> or <clock>::unfollow::<whom> of a follow or unfollow
\* call of that user, with the clock the call obtained from the user's back end;
\* no entry is in a log twice, so a call appends at most one entry.
C35_LogAppendOnly ==
    [][\A user \in Users :
         /\ IsPrefix(ListGet(user, "log"), ListGet(user, "log")')
         /\ ListGet(user, "log")' # ListGet(user, "log")
            => \E p \in Procs : AppendsOwnEntry(p, user)]_vars
    /\ []LogEntriesDiffer

\* follow and unfollow calls of two tasks have appended three entries to the log
\* of "a", entries of both kinds
C35_Witness ==
    /\ Len(ListGet("a", "log")) = 3
    /\ \E i, j \in 1..3 : /\ IsEntry(ListGet("a", "log")[i], "follow", "d")
                          /\ IsEntry(ListGet("a", "log")[j], "unfollow", "d")
    /\ \E p \in Procs : gh[p].conc # {}

(* ------------------------------ C36 ----------------------------------- *)
\* a post is assigned a clock by back end b in this step
PostClockFrom(b) ==
    /\ clock'[b] # clock[b]
    /\ keeper' = [keeper EXCEPT !.given = keeper'.given]
    /\ keeper'.given >= clock'[b]

\* C36: when a post was assigned clock c before a keeper iteration began and
\* that iteration completed both passes, every post after that is assigned a
\* clock greater than c, on whichever back end.
C36_PostClocksAfterIteration ==
    [][\A b \in Backs : PostClockFrom(b) => clock'[b] > keeper.settled]_vars

\* an iteration has completed after a post was assigned a clock by back end 1,
\* and a later post has been assigned a clock by back end 0
C36_Witness ==
    /\ keeper.settled >= 2
    /\ clock[1] > keeper.settled
    /\ clock[0] = keeper.given /\ keeper.given > keeper.settled

(* ------------------------------ C37 ----------------------------------- *)
\* C37: the stored followee list of a user never holds the same name twice,
\* whatever follow and unfollow calls ran concurrently.
C37_Original == \A who \in Users : NoDuplicates(ListGet(who, "followees"))

(* ------------------------------ C38 ----------------------------------- *)
\* the call of task p is a follow that returned AlreadyFollowing or
\* FollowingTooMany or an unfollow that returned NotFollowing
FailedFollowCall(p) ==
    /\ pc[p] = "done"
    /\ \/ loc[p].op = "follow" /\ ret[p].tag \in {"AlreadyFollowing", "FollowingTooMany"}
       \/ loc[p].op = "unfollow" /\ ret[p].tag = "NotFollowing"

\* C38: a follow that returns AlreadyFollowing or FollowingTooMany and an
\* unfollow that returns NotFollowing leave the stored followee list of who and
\* the marker of the pair as they were when the call began (one task, so that
\* nothing else writes meanwhile).
C38_FailedCallsWriteNothing ==
    \A p \in Procs :
        (FailedFollowCall(p) /\ gh[p].alone)
        => /\ ListGet(loc[p].who, "followees") = gh[p].fl
           /\ Get(loc[p].who, loc[p].whom) = gh[p].mk

\* an unfollow of a user with followees has returned NotFollowing for a pair
\* whose marker was never stored
C38_Witness ==
    \E p \in Procs :
        /\ FailedFollowCall(p) /\ gh[p].alone
        /\ ret[p].tag = "NotFollowing"
        /\ gh[p].mk = NoneV
        /\ gh[p].fl # <<>>
\* a follow has returned AlreadyFollowing for a pair with the marker "T"
C38_WitnessFollow ==
    \E p \in Procs :
        /\ FailedFollowCall(p) /\ gh[p].alone
        /\ ret[p].tag = "AlreadyFollowing" /\ gh[p].mk = "T"
\* a follow has returned FollowingTooMany
C38_WitnessLimit ==
    \E p \in Procs :
        /\ FailedFollowCall(p) /\ gh[p].alone
        /\ ret[p].tag = "FollowingTooMany" /\ Len(gh[p].fl) = MAX_FOLLOWING
(* ------------------------------ C39 ----------------------------------- *)
\* the reference FrontServer from its construction, two tasks calling its methods
NextRef == \E p \in Procs : RefStart(p) \/ RefAcquire(p) \/ RefReturn(p)
SpecRef == Init /\ [][NextRef]_vars
\* a task that can take its lock or return does so
SpecRefFair == SpecRef /\ \A p \in Procs : WF_vars(RefAcquire(p) \/ RefReturn(p))

\* C39: in the reference FrontServer the clocks of the successful posts are
\* strictly increasing in the order the posts were made, and each is at least
\* the hint of its post, whatever u64 the hints are.
C39_Original ==
    \A i \in 1..Len(server.posted) :
        /\ server.posted[i][2] >= server.posted[i][1]
        /\ \A j \in 1..(i - 1) : server.posted[j][2] < server.posted[i][2]

\* the same while no post had the hint u64::MAX
IncreasingBelowMaxHint ==
    (\A i \in 1..Len(server.posted) : server.posted[i][1] < U64_MAX) => C39_Original

(* ------------------------------ C40 ----------------------------------- *)
\* task p holds a guard on the user table ("users") or the home table ("homes")
HoldsLock(p, table) == \E h \in server.held[p] : LockOf(h) = table
\* task p is at a lock it cannot take now
WaitsForLock(p) == pc[p] = "rf_lock" /\ ~CanLock(NextLock(p))
\* no task that holds the home table goes on to take the user table
UsersBeforeHomes ==
    \A p \in Procs : (pc[p] = "rf_lock" /\ HoldsLock(p, "homes")) => LockOf(NextLock(p)) # "users"
\* when a task is at a lock, some task can take its lock or return
SomeTaskCanStep ==
    (\E p \in Procs : pc[p] = "rf_lock")
    => \E q \in Procs : pc[q] = "rf_return" \/ (pc[q] = "rf_lock" /\ CanLock(NextLock(q)))

\* C40: in the reference FrontServer a method that holds both locks took the
\* user table first; whatever methods two tasks call concurrently, the tasks are
\* never all waiting for locks, and every call that reaches a lock returns.
C40_NoDeadlock ==
    /\ []UsersBeforeHomes
    /\ []SomeTaskCanStep
    /\ \A p \in Procs : (pc[p] = "rf_lock") ~> (pc[p] = "done")

\* a method that holds the user table waits for the home table while a home
\* call reads it
C40_Witness ==
    \E p, q \in Procs :
        /\ WaitsForLock(p) /\ HoldsLock(p, "users") /\ NextLock(p) = "homes_write"
        /\ loc[q].op = "home" /\ HoldsLock(q, "homes")
====
